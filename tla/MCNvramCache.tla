----------------------------- MODULE MCNvramCache -----------------------------
EXTENDS NvramCache

(* Two writes that continue each other up to the cache's length, one with  *)
(* head, middle and tail, one on the other page that is too long for the   *)
(* cache, one too short, one on a page that does not exist.                *)
MCRanges ==
  {<<0, 0, 2>>, <<0, 2, 2>>, <<0, 1, 4>>, <<0, 4, 2>>, <<1, 1, 5>>, <<0, 5, 1>>, <<2, 0, 2>>}
===============================================================================
