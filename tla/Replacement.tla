----------------------------- MODULE Replacement -----------------------------
(***************************************************************************)
(* What RecSA promises while nothing fails (module docstrings of estab and *)
(* get_config): all processors have one configuration; they agree on one   *)
(* proposal at a time, each replaces its configuration by that proposal    *)
(* once, and no other proposal is agreed on before all have done so.       *)
(* RecSA.tla is the detailed specification that implements this one.       *)
(***************************************************************************)
CONSTANTS
  Processor,
  Candidates,   \* the configurations that can be proposed
  Initial,      \* the configuration at the start
  None          \* no proposal is agreed on

VARIABLES config, agreed

Init == /\ config = [p \in Processor |-> Initial]
        /\ agreed = None

Agree == /\ agreed = None
         /\ agreed' \in Candidates
         /\ UNCHANGED config

Finished == \A p \in Processor : config[p] = agreed

(* The last processor may install the proposal and end the replacement in  *)
(* one step.                                                               *)
Install(p) ==
  /\ agreed # None
  /\ config' = [config EXCEPT ![p] = agreed]
  /\ \/ UNCHANGED agreed
     \/ /\ \A q \in Processor : config'[q] = agreed
        /\ agreed' = None

Next == Agree \/ \E p \in Processor : Install(p)

Spec == Init /\ [][Next]_<<config, agreed>>
=============================================================================
