---------------------------- MODULE WalletAudit ----------------------------
(***************************************************************************)
(* The wallet watched across its incarnations.  History variables remember *)
(* which signatures passed since the state account was made, which closed  *)
(* an earlier incarnation, and who advanced the state's rent.  They read   *)
(* the program's steps and never guard one.                                *)
(***************************************************************************)
EXTENDS SmartWalletProperties, FiniteSets

VARIABLES
  passed,       \* the approvals that passed in this incarnation
  closedBy,     \* the approvals that closed an incarnation
  approval,     \* the approval the last step consumed, if any
  rentFrom      \* the relayer that advanced the state's rent, if any

auditVars == <<vars, passed, closedBy, approval, rentFrom>>

Approval(signer, r) == [key |-> signer, request |-> r]

\* One authorized transaction, and what the history keeps of it.
Audited(signer, r, relayer) ==
  /\ approval' = {Approval(signer, r)}
  /\ IF wallet' = NoAccount
     THEN /\ passed' = {}
          /\ closedBy' = closedBy \union approval'
          /\ rentFrom' = {}
     ELSE /\ passed' = passed \union approval'
          /\ rentFrom' = IF Exists \/ RentAdvance = 0 THEN rentFrom ELSE {relayer}
          /\ UNCHANGED closedBy

AuditInit ==
  /\ Init
  /\ passed = {} /\ closedBy = {} /\ approval = {} /\ rentFrom = {}

AuditNext ==
  \/ \E signer \in Keys, r \in Requests, relayer \in Relayers, asked \in RelayerFees :
       Execute(signer, r, relayer, asked) /\ Audited(signer, r, relayer)
  \/ /\ Unsigned
     /\ approval' = {}
     /\ UNCHANGED <<passed, closedBy, rentFrom>>

AuditSpec == AuditInit /\ [][AuditNext]_auditVars

\* The nonce counts the approvals that passed in this incarnation: exactly one
\* for every value below it and none at or above.  No signature passes twice,
\* no two pass for the same nonce, whatever the keys did in between
\* (state.rs: "Own anti-replay counter").
NonceCountsApprovals ==
  /\ ~Exists => passed = {}
  /\ Exists =>
       /\ {a.request.nonce : a \in passed} = 0 .. wallet.nonce - 1
       /\ Cardinality(passed) = wallet.nonce

\* Doc: "Nothing of the wallet stays on-chain: the same signature can never
\* pass again" (close_wallet.rs, CloseWallet::close).
CloseNeverPassesAgain == [][approval' \intersect closedBy = {}]_auditVars

\* Doc: "Its rent goes back to the relayer, the fee payer that advanced it"
\* (close_wallet.rs, on the closed account): the account that loses the rent to
\* a close is the one that put it there.
RentReturnsToItsPayer ==
  [][rentFrom' = {} =>
       \A a \in rentFrom : lamports'[a] >= lamports[a] + StateRent]_auditVars
=============================================================================
