------------------------------ MODULE Recovery ------------------------------
(***************************************************************************)
(* What the wallet promises its owner and its guardians: who holds it, who *)
(* guards it, and how a proposal ripens.  Keys act; signatures, nonces,    *)
(* slots and lamports are the program's means and do not appear.           *)
(***************************************************************************)
EXTENDS Integers

CONSTANTS
  Keys,
  Founders,                         \* the keys that may make the wallet
  ROTATION_DELAY, ROTATION_WINDOW

VARIABLES
  holder,           \* the key that holds the wallet: none, or one
  guardians,        \* the keys that guard it
  proposal,         \* the pending proposal: none, or one
  age               \* its seconds, as far as they matter; 0 without one

recoveryVars == <<holder, guardians, proposal, age>>

\* A proposal's first second past its window.
LapsedAge == ROTATION_DELAY + ROTATION_WINDOW + 1

Init ==
  /\ holder = {} /\ guardians = {}
  /\ proposal = {} /\ age = 0

Drop == proposal' = {} /\ age' = 0

-----------------------------------------------------------------------------
(* The holder. *)

Found(k, G) ==
  /\ holder = {}
  /\ k \in Founders
  /\ holder' = {k}
  /\ guardians' = G
  /\ UNCHANGED <<proposal, age>>

Entrust(G) ==
  /\ holder # {}
  /\ guardians' = G
  /\ Drop
  /\ UNCHANGED holder

HandOver(k) ==
  /\ holder # {}
  /\ holder' = {k}
  /\ Drop
  /\ UNCHANGED guardians

Cancel ==
  /\ proposal # {}
  /\ Drop
  /\ UNCHANGED <<holder, guardians>>

Dissolve ==
  /\ holder # {}
  /\ holder' = {} /\ guardians' = {}
  /\ Drop

-----------------------------------------------------------------------------
(* The guardians, and whoever confirms. *)

\* Fault: an abandoned proposal holds its place for ever.
MayReplaceOwnOnly(g) == \A p \in proposal : p.by = g

MayReplace(g) == \A p \in proposal : p.by = g \/ age = LapsedAge

Propose(g, k) ==
  /\ g \in guardians \ holder
  /\ MayReplace(g)
  /\ proposal' = {[by |-> g, key |-> k]}
  /\ age' = 0
  /\ UNCHANGED <<holder, guardians>>

Recover ==
  /\ age \in ROTATION_DELAY .. ROTATION_DELAY + ROTATION_WINDOW
  /\ \E p \in proposal : holder' = {p.key}
  /\ Drop
  /\ UNCHANGED guardians

Elapse ==
  /\ proposal # {}
  /\ age < LapsedAge
  /\ age' = age + 1
  /\ UNCHANGED <<holder, guardians, proposal>>

HolderNext ==
  \/ \E k \in Founders, G \in SUBSET Keys : Found(k, G)
  \/ \E G \in SUBSET Keys : Entrust(G)
  \/ \E k \in Keys : HandOver(k)
  \/ Cancel
  \/ Dissolve

Next ==
  \/ HolderNext
  \/ \E g, k \in Keys : Propose(g, k)
  \/ Recover
  \/ Elapse

Spec == Init /\ [][Next]_recoveryVars
=============================================================================
