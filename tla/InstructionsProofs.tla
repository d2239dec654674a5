------------------------- MODULE InstructionsProofs -------------------------
(***************************************************************************)
(* An approval binds its instruction, for every set of requests and every  *)
(* instruction a relayer could write.                                      *)
(***************************************************************************)
EXTENDS Instructions, TLAPS

TypeInv == ix.name \in Names /\ ix \in InstructionOf(ix.name) /\ approved \in Requests

-----------------------------------------------------------------------------
(* The two enums of guardians. *)

\* From<Guardian> for the encoding's guardian loses nothing: the client's own
\* conversion undoes it (state.rs, From for EncodingGuardian).
LEMMA GuardianRoundTrip ==
  ASSUME NEW g \in Guardian
  PROVE  /\ ProgramGuardian(EncodingGuardian(g)) = g
         /\ ProgramGuardian(g) \in Guardian
<1>1. CASE g.kind = "None"
  BY <1>1 DEF Guardian, ProgramGuardian, EncodingGuardian
<1>2. CASE g.kind = "P256"
  BY <1>2 DEF Guardian, ProgramGuardian, EncodingGuardian
<1>3. CASE g.kind = "WebAuthn"
  BY <1>3 DEF Guardian, ProgramGuardian, EncodingGuardian
<1> QED BY <1>1, <1>2, <1>3 DEF Guardian

-----------------------------------------------------------------------------
(* Types. *)

\* What the client builds for an action has the shape its handler takes.
LEMMA BuiltShape ==
  ASSUME NEW a \in Action, a.kind \in Names
  PROVE  Own(a) \in OwnArguments(a.kind) /\ To(a) \in Destination(a.kind)
<1>1. CASE a.kind = "TransferSol"
  BY <1>1 DEF Action, Own, To, OwnArguments, Destination
<1>2. CASE a.kind = "ProposeRotation"
  BY <1>2 DEF Action, Own, To, OwnArguments, Destination
<1>3. CASE a.kind = "SetGuardians"
  <2>1. a.guardians \in [Slots -> Guardian]
    BY <1>3 DEF Action
  <2>2. [i \in Slots |-> ProgramGuardian(a.guardians[i])] \in [Slots -> Guardian]
    BY <2>1, GuardianRoundTrip
  <2> QED BY <1>3, <2>2 DEF Own, To, OwnArguments, Destination
<1>4. CASE a.kind \in {"CancelRotation", "SweepVault", "CloseWallet"}
  BY <1>4 DEF Action, Own, To, OwnArguments, Destination
<1> QED BY <1>1, <1>2, <1>3, <1>4 DEF Names

\* And so has the instruction around it.
LEMMA BuiltType ==
  ASSUME NEW r \in Requests, NEW relayer \in Relayers, NEW fee \in U64
  PROVE  /\ r.action.kind \in Names
         /\ ProgramInstruction(r, relayer, fee) \in InstructionOf(r.action.kind)
         /\ ProgramInstruction(r, relayer, fee).name = r.action.kind
<1>1. r \in Request /\ r.action.kind \in Names
  BY InstructionsAssumption
<1>2. /\ r.wallet_id \in Address /\ r.nonce \in U64 /\ r.expires_at \in I64
      /\ r.max_relayer_fee \in U64 /\ r.action \in Action
  BY <1>1 DEF Request
<1>3. Own(r.action) \in OwnArguments(r.action.kind) /\ To(r.action) \in Destination(r.action.kind)
  BY <1>1, <1>2, BuiltShape
<1>4. /\ WalletPda[r.wallet_id] \in Address /\ VaultPda[r.wallet_id] \in Address
      /\ relayer \in Address
      /\ {PROGRAM_ID, SYSTEM_PROGRAM, INSTRUCTIONS_SYSVAR, EVENT_AUTHORITY} \subseteq Address
  BY <1>2, InstructionsAssumption
<1> QED BY <1>1, <1>2, <1>3, <1>4 DEF ProgramInstruction, InstructionOf, Arguments, Accounts

\* Whatever a relayer writes is an instruction of the program.
THEOREM TypeIsInvariant == Spec => []TypeInv
<1>1. \A fee \in Fees : fee \in U64
  BY RewritesAssumption DEF Fees, InstructionOf, Arguments
<1>2. Init => TypeInv
  BY <1>1, BuiltType DEF Init, TypeInv
<1>3. TypeInv /\ [Next]_vars => TypeInv'
  <2> SUFFICES ASSUME TypeInv, [Next]_vars PROVE TypeInv'
    OBVIOUS
  <2>1. CASE UNCHANGED vars
    BY <2>1 DEF TypeInv, vars
  <2>2. CASE Replace /\ UNCHANGED approved
    BY <1>1, <2>2, BuiltType DEF Replace, TypeInv
  <2>3. CASE RewriteName /\ UNCHANGED approved
    <3> PICK i \in Instructions :
          /\ ix.own \in OwnArguments(i.name) /\ ix.to \in Destination(i.name)
          /\ ix' = [ix EXCEPT !.name = i.name]
      BY <2>3 DEF RewriteName
    <3> i.name \in Names
      BY RewritesAssumption
    <3> QED BY <2>3 DEF TypeInv, InstructionOf
  <2>4. CASE RewriteArguments /\ UNCHANGED approved
    <3> PICK i \in Instructions :
          \/ ix' = [ix EXCEPT !.args = i.args]
          \/ i.name = ix.name /\ ix' = [ix EXCEPT !.own = i.own]
      BY <2>4 DEF RewriteArguments
    <3> i \in InstructionOf(i.name)
      BY RewritesAssumption
    <3> QED BY <2>4 DEF TypeInv, InstructionOf
  <2>5. CASE RewriteAccounts /\ UNCHANGED approved
    <3> PICK i \in Instructions :
          \/ ix' = [ix EXCEPT !.accounts = i.accounts]
          \/ i.name = ix.name /\ ix' = [ix EXCEPT !.to = i.to]
      BY <2>5 DEF RewriteAccounts
    <3> i \in InstructionOf(i.name)
      BY RewritesAssumption
    <3> QED BY <2>5 DEF TypeInv, InstructionOf
  <2> QED BY <2>1, <2>2, <2>3, <2>4, <2>5 DEF Next
<1> QED BY <1>2, <1>3, PTL DEF Spec

-----------------------------------------------------------------------------
(* The binding. *)

\* The client's own arguments and destination can be read back from the
\* action a handler performs.
LEMMA OwnPerformed ==
  ASSUME NEW n \in Names, NEW i \in InstructionOf(n)
  PROVE  /\ Performed(i).kind = i.name
         /\ Own(Performed(i)) = i.own
         /\ To(Performed(i)) = i.to
<1>1. i.name = n /\ i.own \in OwnArguments(n) /\ i.to \in Destination(n)
  BY DEF InstructionOf
<1>2. CASE n = "TransferSol"
  BY <1>1, <1>2 DEF Performed, Own, To, OwnArguments, Destination
<1>3. CASE n = "ProposeRotation"
  BY <1>1, <1>3 DEF Performed, Own, To, OwnArguments, Destination
<1>4. CASE n = "CancelRotation"
  BY <1>1, <1>4 DEF Performed, Own, To, OwnArguments, Destination
<1>5. CASE n = "SetGuardians"
  <2> DEFINE g == i.own.guardians
  <2>1. i.own \in [guardians : [Slots -> Guardian]] /\ i.to = <<>>
    BY <1>1, <1>5 DEF OwnArguments, Destination
  <2>2. g \in [Slots -> Guardian] /\ i.own = [guardians |-> g]
    BY <2>1
  <2>3. Performed(i) =
          [kind |-> "SetGuardians", guardians |-> [j \in Slots |-> EncodingGuardian(g[j])]]
    BY <1>1, <1>5 DEF Performed
  <2>4. [j \in Slots |-> ProgramGuardian(EncodingGuardian(g[j]))] = g
    BY <2>2, GuardianRoundTrip
  <2>5. Own(Performed(i)) = [guardians |-> g]
    BY <2>3, <2>4 DEF Own
  <2> QED BY <1>1, <1>5, <2>1, <2>2, <2>3, <2>5 DEF To
<1>6. CASE n \in {"SweepVault", "CloseWallet"}
  <2>1. i.own = <<>> /\ i.to = <<i.to[1]>>
    BY <1>1, <1>6 DEF OwnArguments, Destination
  <2>2. Performed(i) = [kind |-> i.name, to |-> i.to[1]]
    BY <1>1, <1>6 DEF Performed
  <2> QED BY <1>1, <1>6, <2>1, <2>2 DEF Own, To
<1> QED BY <1>2, <1>3, <1>4, <1>5, <1>6 DEF Names

\* An instruction that passes under an approval is the one the client builds
\* for it, but for the relayer's account and the fee it asks.
LEMMA PassingIsBuilt ==
  ASSUME NEW n \in Names, NEW i \in InstructionOf(n), NEW r, Passes(i, r)
  PROVE  i = ProgramInstruction(r, i.accounts.relayer, i.args.relayer_fee)
<1> DEFINE b == ProgramInstruction(r, i.accounts.relayer, i.args.relayer_fee)
<1>1. /\ i = [name |-> i.name, args |-> i.args, own |-> i.own, accounts |-> i.accounts,
              to |-> i.to]
      /\ i.args \in Arguments /\ i.accounts \in Accounts
  BY DEF InstructionOf
<1>2. r = Rebuilt(i) /\ Constrained(i)
  BY DEF Passes
<1>3. /\ r.wallet_id = i.args.wallet_id /\ r.nonce = i.args.nonce
      /\ r.expires_at = i.args.expires_at /\ r.max_relayer_fee = i.args.max_relayer_fee
      /\ r.action = Performed(i)
  BY <1>2 DEF Rebuilt
<1>4. i.name = b.name /\ i.own = b.own /\ i.to = b.to
  BY <1>3, OwnPerformed DEF ProgramInstruction
<1>5. i.args = b.args
  BY <1>1, <1>3 DEF ProgramInstruction, Arguments
<1>6. i.accounts = b.accounts
  BY <1>1, <1>2, <1>3 DEF ProgramInstruction, Accounts, Constrained
<1> QED BY <1>1, <1>4, <1>5, <1>6 DEF ProgramInstruction

\* Of an instruction that executes an approval the relayer chose its own
\* account and the fee it asks, nothing else (the handlers' `let action`,
\* authorization.rs:55-66 and the accounts' constraints).
THEOREM RelayerChoosesNothingElse == Spec => []ApprovalBindsInstruction
<1>1. TypeInv => ApprovalBindsInstruction
  BY PassingIsBuilt DEF TypeInv, ApprovalBindsInstruction
<1> QED BY <1>1, TypeIsInvariant, PTL

-----------------------------------------------------------------------------
(* The other way: what is built passes. *)

\* And the conversion the handler applies undoes the client's.
LEMMA GuardianBackAgain ==
  ASSUME NEW g \in Guardian
  PROVE  EncodingGuardian(ProgramGuardian(g)) = g
<1>1. CASE g.kind = "None"
  BY <1>1 DEF Guardian, ProgramGuardian, EncodingGuardian
<1>2. CASE g.kind = "P256"
  BY <1>2 DEF Guardian, ProgramGuardian, EncodingGuardian
<1>3. CASE g.kind = "WebAuthn"
  BY <1>3 DEF Guardian, ProgramGuardian, EncodingGuardian
<1> QED BY <1>1, <1>2, <1>3 DEF Guardian

\* A handler performs the action the client built its instruction from.
LEMMA BuiltPerforms ==
  ASSUME NEW a \in Action, a.kind \in Names, NEW i,
         i.name = a.kind, i.own = Own(a), i.to = To(a)
  PROVE  Performed(i) = a
<1>1. CASE a.kind = "TransferSol"
  BY <1>1 DEF Action, Performed, Own, To
<1>2. CASE a.kind = "ProposeRotation"
  BY <1>2 DEF Action, Performed, Own
<1>3. CASE a.kind = "SetGuardians"
  <2> DEFINE g == a.guardians
  <2>1. g \in [Slots -> Guardian] /\ a = [kind |-> "SetGuardians", guardians |-> g]
    BY <1>3 DEF Action
  <2>2. i.own = [guardians |-> [j \in Slots |-> ProgramGuardian(g[j])]]
    BY <1>3 DEF Own
  <2> HIDE DEF g
  <2>3. [j \in Slots |-> EncodingGuardian(i.own.guardians[j])] = g
    BY <2>1, <2>2, GuardianBackAgain
  <2> QED BY <1>3, <2>1, <2>3 DEF Performed
<1>4. CASE a.kind = "CancelRotation"
  BY <1>4 DEF Action, Performed
<1>5. CASE a.kind \in {"SweepVault", "CloseWallet"}
  BY <1>5 DEF Action, Performed, To
<1> QED BY <1>1, <1>2, <1>3, <1>4, <1>5 DEF Names

\* Whoever relays an approval, at whatever fee: the instruction the client
\* builds for it passes, unless the handler refuses the action whoever signed
\* it (instructions.rs, and the `let action` of each handler).
THEOREM EveryRelayerMaySend == Spec => []AnyRelayerMaySend
<1>1. TypeInv => AnyRelayerMaySend
  <2> SUFFICES ASSUME approved \in Requests, ~Refuses(approved.action),
                      NEW relayer \in Relayers, NEW fee \in Fees
               PROVE  Passes(ProgramInstruction(approved, relayer, fee), approved)
    BY DEF TypeInv, AnyRelayerMaySend
  <2> DEFINE i == ProgramInstruction(approved, relayer, fee)
  <2>1. approved \in Request /\ approved.action \in Action /\ approved.action.kind \in Names
    BY InstructionsAssumption DEF Request
  <2>2. /\ i.name = approved.action.kind
        /\ i.own = Own(approved.action) /\ i.to = To(approved.action)
    BY DEF ProgramInstruction
  <2>3. Performed(i) = approved.action
    BY <2>1, <2>2, BuiltPerforms
  <2>4. Rebuilt(i) = approved
    BY <2>1, <2>3 DEF Rebuilt, ProgramInstruction, Request
  <2>5. Constrained(i)
    BY DEF Constrained, ProgramInstruction
  <2> QED BY <2>3, <2>4, <2>5 DEF Passes
<1> QED BY <1>1, TypeIsInvariant, PTL
=============================================================================
