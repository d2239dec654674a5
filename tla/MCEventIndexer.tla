--------------------------- MODULE MCEventIndexer ---------------------------
(***************************************************************************)
(* A wallet that goes through every event, some of them twice, watched by  *)
(* an indexer.  The owner and its heir sign everything, the guardians what *)
(* guardians can.                                                          *)
(***************************************************************************)
EXTENDS EventIndexer, MCSmartWallet

IndexerActions ==
  {Pay(bob, 0), Sweep(bob), Close(bob), Cancel, MoveTo(heir),
   SetTo(Key(guardian1), Key(guardian2)), SetTo(NoGuardian, Key(guardian1))}

IndexerRequests ==
  {RequestFor(Id, n, MaxTime + 1, 0, a) : n \in 0 .. 3, a \in IndexerActions}

IndexerSignatures ==
  {SignedBy(k, ProgramId, r) : k \in {owner, heir}, r \in IndexerRequests}
  \union {SignedBy(g, ProgramId, r) : g \in {guardian1, guardian2},
     r \in {q \in IndexerRequests : q.action = MoveTo(heir)}}

IndexerEndowment == [a \in Accounts |-> 2]
=============================================================================
