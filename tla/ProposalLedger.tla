--------------------------- MODULE ProposalLedger ---------------------------
(***************************************************************************)
(* What the review and apply workflow promises of the proposals, without   *)
(* notes, reads, writes and rollbacks: a proposal is decided once, is in   *)
(* the hands of one call at a time, and the proposals a call has taken     *)
(* together end together, as the call reports.  ReviewWorkflow implements  *)
(* it.                                                                     *)
(***************************************************************************)
CONSTANTS
  Proposals,
  Calls,
  Results   \* the pairs <<report, status>> with which a call may end

VARIABLES
  state,    \* what has become of each proposal; "taken" while a call has it
  held,     \* held[c]: the proposals call c has taken
  report    \* report[c]: what call c has reported, at first "none"

Become(S, s) == state' = [p \in Proposals |-> IF p \in S THEN s ELSE state[p]]

Init ==
  /\ state  = [p \in Proposals |-> "absent"]
  /\ held   = [c \in Calls |-> {}]
  /\ report = [c \in Calls |-> "none"]

Save(p) == state[p] = "absent" /\ Become({p}, "pending") /\ UNCHANGED <<held, report>>

Decide(p) ==
  /\ state[p] = "pending"
  /\ \E decision \in {"approved", "dismissed", "deferred"} : Become({p}, decision)
  /\ UNCHANGED <<held, report>>

Take(c) ==
  /\ held[c] = {} /\ report[c] = "none"
  /\ \E S \in SUBSET Proposals :
       /\ S # {} /\ \A p \in S : state[p] \in {"pending", "approved"}
       /\ Become(S, "taken")
       /\ held' = [held EXCEPT ![c] = S]
  /\ UNCHANGED report

\* All of the proposals that were taken together have one end.
Settle(c) ==
  /\ held[c] # {}
  /\ \E result \in Results :
       /\ Become(held[c], result[2])
       /\ report' = [report EXCEPT ![c] = result[1]]
  /\ held' = [held EXCEPT ![c] = {}]

Refuse(c) ==
  /\ held[c] = {} /\ report[c] = "none"
  /\ \E told \in {"invalid", "canceled"} : report' = [report EXCEPT ![c] = told]
  /\ UNCHANGED <<state, held>>

Next ==
  \/ \E p \in Proposals : Save(p) \/ Decide(p)
  \/ \E c \in Calls : Take(c) \/ Settle(c) \/ Refuse(c)

Spec == Init /\ [][Next]_<<state, held, report>>
=============================================================================
