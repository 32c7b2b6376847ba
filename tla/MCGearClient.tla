---------------------------- MODULE MCGearClient ----------------------------
(* GearClient for TLC: the streams a foreign client may send, in which a   *)
(* byte of a payload may look like a type or a header; and two status      *)
(* answers, with plain numbers and with two that have wrapped.             *)
EXTENDS GearClient

Orderly == {
  <<1, 3, 2,0,0,0, 3,1, 1, 0,0,0,0, 3, 0,0,0,0>>,  \* query, status, empty query
  <<1, 9, 3, 1,0,0,0, 1, 7, 3, 1,0,0,0, 3>>,       \* unknown types before queries
  <<1, 3, 5,0,0,0, 1,1>>,                          \* a query cut short
  <<1, 1, 0,0,0,0>>,                               \* only a status request
  <<2, 3, 1,0,0,0, 9>>,                            \* a version not supported
  <<3, 1,0,0,0, 9>> }                              \* no version at all

NotHandled == {
  <<1, 0, 3,1,0,0,0,1,0,0,0,0, 3, 1,0,0,0, 1>>,    \* N_CONNECT, then a query
  <<1, 3, 1,0,0,0, 3, 2, 0,0,0,0, 1, 0,0,0,0>>,    \* a query, then N_CONTROL
  <<1, 0,0,0,0, 3, 3,0,0,0, 9,9,9>> }              \* exmaple_client.php: no version

AllStreams == Orderly \cup NotHandled

Texts == { [i \in 1 .. 21 |-> IF i % 2 = 1 THEN 48 ELSE 59],
           [i \in 1 .. 60 |-> 49] }
=============================================================================
