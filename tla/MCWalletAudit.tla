--------------------------- MODULE MCWalletAudit ---------------------------
(***************************************************************************)
(* A wallet created, closed and created again while its first signatures   *)
(* are still good, with two relayers to carry them, in a bundle or one by  *)
(* one: accounts may be short of their rent in between.                    *)
(***************************************************************************)
EXTENDS WalletAudit, MCSmartWallet

\* The approvals for nonce 0 expire before the others, and pay no relayer.
\* From nonce 3 on the guardians are set again and again, to the last nonce.
AuditRequests ==
  {RequestFor(Id, n, IF n = 0 THEN 3 ELSE 4, IF n = 0 THEN 0 ELSE 1, a) :
     n \in 0 .. 2,
     a \in {Sweep(bob), Close(bob), Close(State), MoveTo(heir), MoveTo(owner), Cancel,
            SetTo(Key(heir), NoGuardian)}}
  \union {RequestFor(Id, n, 4, 0, SetTo(Key(heir), NoGuardian)) : n \in 3 .. U64Max}

\* Both keys sign whatever they are asked.
AuditSignatures == {SignedBy(k, ProgramId, r) : k \in Keys, r \in AuditRequests}

AuditEndowment == [a \in Accounts |-> IF a = bob THEN 2 ELSE 3]
=============================================================================
