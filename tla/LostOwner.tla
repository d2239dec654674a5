----------------------------- MODULE LostOwner -----------------------------
(***************************************************************************)
(* Recovery when the holder's key is gone: the case guardians are for.  A  *)
(* friend keeps trying; the other guardians do as they like, propose keys  *)
(* that are gone included, and at some point give up, a proposal of theirs *)
(* possibly pending.                                                       *)
(***************************************************************************)
EXTENDS Recovery

CONSTANT Friend         \* a guardian that keeps trying

VARIABLES
  lost,                 \* the keys nobody has any more
  quiet                 \* the other guardians have given up

lostVars == <<recoveryVars, lost, quiet>>

\* The wallet is held by a key nobody can sign with.
Stranded == holder # {} /\ holder \subseteq lost

LostInit == Init /\ lost = {} /\ quiet = FALSE

\* A lost key signs nothing, nor makes a wallet.
Holds ==
  /\ ~Stranded
  /\ HolderNext
  /\ holder = {} => holder' \intersect lost = {}
  /\ UNCHANGED <<lost, quiet>>

LoseKey ==
  /\ ~Stranded
  /\ holder # {}
  /\ lost' = lost \union holder
  /\ UNCHANGED <<recoveryVars, quiet>>

GiveUp ==
  /\ Stranded /\ ~quiet
  /\ quiet' = TRUE
  /\ UNCHANGED <<recoveryVars, lost>>

\* Any key, a lost one and the holder's included: the program refuses neither.
OthersPropose ==
  /\ ~quiet
  /\ \E g \in Keys \ ({Friend} \union lost), k \in Keys : Propose(g, k)
  /\ UNCHANGED <<lost, quiet>>

\* The friend lets its own proposal ripen.
FriendProposes ==
  /\ Friend \notin lost
  /\ \A p \in proposal : p.by = Friend => age = LapsedAge
  /\ \E k \in Keys \ lost : Propose(Friend, k)
  /\ UNCHANGED <<lost, quiet>>

\* Whoever's proposal it is, and whichever key it installs: the others stay
\* quiet as long as nobody can use the wallet.
Recovers ==
  /\ Recover
  /\ quiet' = (quiet /\ holder' \subseteq lost)
  /\ UNCHANGED lost

Elapses == Elapse /\ UNCHANGED <<lost, quiet>>

LostNext ==
  \/ Holds \/ LoseKey \/ GiveUp
  \/ OthersPropose \/ FriendProposes
  \/ Recovers \/ Elapses

\* Time passes; the others give up; the friend does not, and of all the
\* windows in which a transaction could confirm its proposal it meets one.
LostFairness ==
  /\ WF_lostVars(Elapses) /\ WF_lostVars(GiveUp)
  /\ SF_lostVars(FriendProposes) /\ SF_lostVars(Recovers)

LostSpec == LostInit /\ [][LostNext]_lostVars /\ LostFairness

\* A wallet held by a lost key comes to be held by a key somebody has, if one
\* guardian that still has its own keeps trying and the others give up at some
\* point, whatever they left pending ("an abandoned proposal must not lock the
\* other guardians out while the owner is gone", propose_rotation): also when
\* what they left installs the lost key again.  Whose key it is, the friend
\* decides only if no proposal of another guardian is confirmed first.
FriendRecovers == (Stranded /\ Friend \in guardians \ lost) ~> ~Stranded
=============================================================================
