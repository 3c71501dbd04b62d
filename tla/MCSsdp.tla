------------------------------- MODULE MCSsdp -------------------------------
(* A small instance of Ssdp for TLC.                                       *)
EXTENDS Ssdp, TLC

CONSTANTS t1, t2, s1, s2, s3

(* Names: Ohm begins the names of wanted devices. *)
Ohm == <<1>>
Targets == s1 :> [type |-> "device", name |-> <<1, 1>>]
        @@ s2 :> [type |-> "all",    name |-> <<2>>]
        @@ s3 :> [type |-> "error",  name |-> <<2>>]

Reply(name, valid) ==
    [is_request |-> FALSE, valid |-> valid, nts |-> "other", name |-> name,
     location |-> TRUE]
Notify(nts, location) ==
    [is_request |-> TRUE, valid |-> TRUE, nts |-> nts, name |-> <<1, 2>>,
     location |-> location]

(* A reply that matches s1 and s2, one that matches s2 only, one that is   *)
(* not wanted, and advertisements.                                         *)
SomeDatagrams == {Reply(<<1, 1, 1>>, TRUE), Reply(<<1, 2>>, TRUE), Reply(<<2>>, TRUE),
                  Notify("byebye", FALSE), Notify("alive", FALSE)}

=============================================================================
