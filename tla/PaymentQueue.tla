---------------------------- MODULE PaymentQueue ----------------------------
(***************************************************************************)
(* What a wallet promises about the payments it queues instead of sending: *)
(* each is pending, then either paid or vetoed for good.  Its cost never   *)
(* changes, nor does the block it is due at, which is between MinWait and  *)
(* MaxWait blocks after the one that queued it.  It is paid when due or,   *)
(* if the admin queued it, in a step a passkey signed.  Steps settle one   *)
(* payment at a time.                                                      *)
(***************************************************************************)
EXTENDS Naturals

CONSTANTS Ids, MinWait, MaxWait
VARIABLES
  height, signatures,   \* the environment: the chain, the gestures used
  payments

Absent == [status |-> "absent", due |-> 0, fromPasskey |-> FALSE, cost |-> 0]
Init == payments = [i \in Ids |-> Absent]

Queue(i) ==
  /\ payments[i].status = "absent"
  /\ payments'[i].status = "pending"
  /\ payments'[i].due \in height + MinWait .. height + MaxWait
Settle(i, how) ==
  /\ payments[i].status = "pending"
  /\ payments'[i] = [payments[i] EXCEPT !.status = how]
Veto(i) == Settle(i, "vetoed")
PayWhenDue(i) == height >= payments[i].due /\ Settle(i, "paid")
PayCountersigned(i) ==
  ~payments[i].fromPasskey /\ signatures' # signatures /\ Settle(i, "paid")

Next ==
  \E i \in Ids :
    /\ \A j \in Ids \ {i} : payments'[j] = payments[j]
    /\ Queue(i) \/ Veto(i) \/ PayWhenDue(i) \/ PayCountersigned(i)
Spec == Init /\ [][Next]_payments
=============================================================================
