---------------------------- MODULE EventIndexer ----------------------------
(***************************************************************************)
(* An indexer that never reads the state account: it applies the events of *)
(* each transaction, in order, and nothing else.  events.rs says what each *)
(* event tells it.                                                         *)
(***************************************************************************)
EXTENDS SmartWalletProperties

VARIABLE index          \* what the indexer knows of the wallet, or NoAccount

indexVars == <<vars, index>>

noProposal == [new_key |-> ZeroKey, opens_at |-> 0, guardian |-> ZeroKey]

Index ==
  [key : AnyKey, nonce : Nat, guardians : [Slots -> Guardian], pending : BOOLEAN,
   proposal : [new_key : AnyKey, opens_at : Nat, guardian : AnyKey]]

ASSUME IndexAssumption == NoAccount \notin Index

\* What an indexer knows of a wallet whose creation it has just seen.
Known(key) ==
  [key |-> key, nonce |-> 0, guardians |-> [i \in Slots |-> [kind |-> "None"]],
   pending |-> FALSE, proposal |-> noProposal]

\* A signed action: one more nonce used.
Counted(known) == [known EXCEPT !.nonce = @ + 1]

Unproposed(known) == [known EXCEPT !.pending = FALSE, !.proposal = noProposal]

Apply(known, e) ==
  CASE e.type = "WalletCreated" -> Known(e.key)
    [] e.type \in {"SolTransferred", "VaultSwept"} -> Counted(known)
    [] e.type = "WalletClosed" -> NoAccount
    [] e.type = "GuardiansSet" ->
         [Unproposed(Counted(known)) EXCEPT !.guardians = e.guardians]
    [] e.type = "RotationProposed" ->
         [Counted(known) EXCEPT
            !.pending = TRUE,
            !.proposal = [new_key |-> e.new_key, opens_at |-> e.opens_at,
                          guardian |-> e.guardian]]
    [] e.type = "RotationCancelled" -> Unproposed(Counted(known))
    [] e.type = "KeyRotated" ->
         [Unproposed(IF e.recovery THEN known ELSE Counted(known)) EXCEPT !.key = e.new_key]

\* The events of a transaction, applied in the order they were emitted.
Applied(known, events) ==
  LET upTo[n \in 0 .. Len(events)] ==
        IF n = 0 THEN known ELSE Apply(upTo[n - 1], events[n])
  IN  upTo[Len(events)]

IndexInit == Init /\ index = NoAccount

IndexNext == Next /\ index' = Applied(index, emitted')

IndexSpec == IndexInit /\ [][IndexNext]_indexVars

Describes(known, w) ==
  /\ known.key = w.active_key
  /\ known.nonce = w.nonce
  /\ [i \in Slots |-> GuardianSlotFrom(known.guardians[i])] = w.guardians
  /\ known.pending = w.rotation.pending
  /\ known.pending =>
       /\ known.proposal.new_key = w.rotation.new_key
       /\ known.proposal.opens_at = OpensAt(w.rotation)
       /\ known.proposal.guardian = w.guardians[w.rotation.proposed_by].key

\* The events alone tell who controls the wallet, the next nonce, the guardians
\* as stored, and the pending proposal with the guardian behind it and the
\* second it opens (README, Events): all of the state account but `attested`,
\* which no instruction sets and no event carries, and the bumps.  No
\* step changes the account without an event that says so, none says more
\* than happened, and a pair of events comes in the order it must be applied.
IndexAgrees ==
  /\ (index = NoAccount) <=> ~Exists
  /\ Exists => Describes(index, wallet)
=============================================================================
