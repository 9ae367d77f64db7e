------------------------------ MODULE PageStore -------------------------------
(***************************************************************************)
(* What the NVRAM of the OSIF promises ZBOSS: pages of bytes written in    *)
(* order.  Accepted bytes may wait (queue) before they survive a power     *)
(* loss (store); they get there in the order in which they were accepted,  *)
(* a reader sees them at once, and only a power loss may forget them.  A   *)
(* page whose erasing was reported as failed is unreliable until it is     *)
(* erased: nothing is promised about its bytes.                            *)
(***************************************************************************)
EXTENDS Naturals, Sequences

CONSTANTS
  Pages,    \* number of pages
  PageLen,  \* length of a page
  Value,    \* what ZBOSS writes into a byte
  Ranges    \* the ranges <<page, pos, len>> it reads and writes

Page == 0 .. Pages - 1
Address == 0 .. Pages * PageLen - 1
Erased == 0                  \* a byte 0xFF
Unreliable == "unreliable"   \* a byte nothing is promised about

VARIABLES
  store,       \* bytes that survive a power loss
  queue,       \* bytes accepted and not in the store yet, in order
  unreliable,  \* pages whose last erasing failed
  last         \* the last call and its answer

vars == <<store, queue, unreliable, last>>

InPage == {r \in Ranges : r[1] \in Page /\ r[2] + r[3] <= PageLen}
AddressOf(page, pos) == page * PageLen + pos
PageOf(a) == a \div PageLen
Filled(v, len) == [i \in 1 .. len |-> v]

(* The bytes of a write, in order.                                         *)
Bytes(page, pos, data) ==
  [i \in 1 .. Len(data) |-> [at |-> AddressOf(page, pos) + i - 1, val |-> data[i]]]

(* s after the bytes of q were written to it, one after the other, as far  *)
(* as anything is promised about them.                                     *)
LastAt(q, a) == CHOOSE i \in DOMAIN q : q[i].at = a /\ \A j \in i + 1 .. Len(q) : q[j].at # a
After(s, q) ==
  [a \in Address |->
     IF PageOf(a) \notin unreliable /\ (\E i \in DOMAIN q : q[i].at = a)
     THEN q[LastAt(q, a)].val
     ELSE s[a]]

(* Any number of the first bytes of q reach the store, the others wait.    *)
Store(q) ==
  \E k \in 0 .. Len(q) :
     /\ queue' = SubSeq(q, k + 1, Len(q))
     /\ store' = After(store, SubSeq(q, 1, k))

Init ==
  /\ store = [a \in Address |-> Erased]
  /\ queue = <<>>
  /\ unreliable = {}
  /\ last = <<"start">>

(* A write is accepted as a whole, or an error tells that only some of its *)
(* first bytes may have been.                                              *)
Write(page, pos, data) ==
  /\ last' = <<"write", page, pos, data, "ok">>
  /\ Store(queue \o Bytes(page, pos, data))
  /\ UNCHANGED unreliable
WriteFails(page, pos, data) ==
  /\ last' = <<"write", page, pos, data, "error">>
  /\ \E k \in 0 .. Len(data) : Store(queue \o Bytes(page, pos, SubSeq(data, 1, k)))
  /\ UNCHANGED unreliable

(* A reader sees every accepted byte.                                      *)
Read(page, pos, len) ==
  LET shown == After(store, queue) IN
  /\ last' = <<"read", page, pos, [i \in 1 .. len |-> shown[AddressOf(page, pos) + i - 1]], "ok">>
  /\ Store(queue)
  /\ UNCHANGED unreliable
ReadFails(page, pos, len) ==
  /\ last' = <<"read", page, pos, <<>>, "error">>
  /\ Store(queue)
  /\ UNCHANGED unreliable

(* An erased page is empty, whatever was accepted for it before; what was  *)
(* accepted for the others is in the store.                                *)
Erase(page) ==
  /\ last' = <<"erase", page, "ok">>
  /\ unreliable' = unreliable \ {page}
  /\ store' = [a \in Address |-> IF PageOf(a) = page THEN Erased ELSE After(store, queue)[a]]
  /\ queue' = <<>>
EraseFails(page) ==
  /\ last' = <<"erase", page, "error">>
  /\ unreliable' = unreliable \cup {page}
  /\ \E k \in 0 .. Len(queue) :
        /\ queue' = SubSeq(queue, k + 1, Len(queue))
        /\ store' = [a \in Address |-> IF PageOf(a) = page THEN Unreliable
                                       ELSE After(store, SubSeq(queue, 1, k))[a]]

(* Bytes reach the store when a flush asks for it, all or some; nobody is  *)
(* told.                                                                   *)
Flush ==
  /\ last' = <<"flush">>
  /\ Store(queue)
  /\ UNCHANGED unreliable
PowerLoss ==
  /\ last' = <<"start">>
  /\ queue' = <<>>
  /\ UNCHANGED <<store, unreliable>>

Next ==
  \/ Flush
  \/ PowerLoss
  \/ \E page \in Page : Erase(page) \/ EraseFails(page)
  \/ \E r \in InPage :
        \/ \E v \in Value : Write(r[1], r[2], Filled(v, r[3]))
        \/ \E v \in Value : WriteFails(r[1], r[2], Filled(v, r[3]))
        \/ ReadFails(r[1], r[2], r[3])
        \/ Read(r[1], r[2], r[3])

Spec == Init /\ [][Next]_vars
===============================================================================
