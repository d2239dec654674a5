-------------------------- MODULE MCWatchfulOwner --------------------------
(***************************************************************************)
(* One owner that watches, two guardians that propose at any time, and a   *)
(* vault that may be empty.  The guardians' nonces end before u64::MAX.    *)
(***************************************************************************)
EXTENDS WatchfulOwner, MCSmartWallet

Cancellations ==
  {CancellationOf(n, t) : n \in 0 .. U64Max, t \in 1 .. MaxTime + DELIVERY_TIME + 1}

WatchOwnerRequests ==
  {RequestFor(Id, n, MaxTime + 1, 1, a) :
     n \in 0 .. U64Max, a \in {SetTo(Key(guardian1), Key(guardian2)), MoveTo(heir), Sweep(bob)}}

WatchGuardianRequests ==
  {RequestFor(Id, n, MaxTime + 1, 0, MoveTo(k)) :
     n \in 0 .. U64Max - 2, k \in {guardian1, heir}}

WatchRequests == Cancellations \union WatchOwnerRequests \union WatchGuardianRequests

WatchSignatures ==
  {SignedBy(k, ProgramId, r) : k \in Keys, r \in Cancellations}
  \union {SignedBy(k, ProgramId, r) : k \in {owner, heir}, r \in WatchOwnerRequests}
  \union {SignedBy(g, ProgramId, r) : g \in {guardian1, guardian2}, r \in WatchGuardianRequests}

WatchEndowment == [a \in Accounts |-> 1]
=============================================================================
