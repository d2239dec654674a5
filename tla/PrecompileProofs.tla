-------------------------- MODULE PrecompileProofs --------------------------
(***************************************************************************)
(* For every length, key and transaction: no two requests have the same    *)
(* preimage, and what the program accepts is what an enclave approved.     *)
(***************************************************************************)
EXTENDS Precompile, SequenceTheorems, TLAPS

-----------------------------------------------------------------------------
(* Byte strings. *)

LEMMA ByteStringIsSeq ==
  ASSUME NEW n \in Nat, NEW b \in ByteString(n)
  PROVE  b \in Seq(Byte) /\ Len(b) = n
BY SeqDef DEF ByteString

\* Two concatenations that are equal and split at the same place have equal parts.
LEMMA ConcatSplit ==
  ASSUME NEW a \in Seq(Byte), NEW b \in Seq(Byte),
         NEW c \in Seq(Byte), NEW d \in Seq(Byte),
         Len(a) = Len(c), a \o b = c \o d
  PROVE  a = c /\ b = d
<1>1. \A i \in 1 .. Len(a) : a[i] = c[i]
  <2> SUFFICES ASSUME NEW i \in 1 .. Len(a) PROVE a[i] = c[i]
    OBVIOUS
  <2>1. Len(b) \in Nat /\ Len(d) \in Nat /\ Len(a) \in Nat
    BY LenProperties
  <2>2. (a \o b)[i] = a[i]
    BY <2>1, ConcatProperties
  <2>3. (c \o d)[i] = c[i]
    BY <2>1, ConcatProperties
  <2> QED BY <2>2, <2>3
<1>2. a = c
  BY <1>1, SeqEqual
<1>3. a \o b = a \o d
  BY <1>2
<1>4. b = d
  BY <1>3, ConcatSimplifications, Zenon
<1> QED BY <1>2, <1>4

\* The same, for a first part of a known length.
LEMMA FieldSplit ==
  \A n, a, b, c, d :
    /\ n \in Nat /\ a \in ByteString(n) /\ c \in ByteString(n)
    /\ b \in Seq(Byte) /\ d \in Seq(Byte) /\ a \o b = c \o d
    => a = c /\ b = d
<1> TAKE n, a, b, c, d
<1> HAVE /\ n \in Nat /\ a \in ByteString(n) /\ c \in ByteString(n)
         /\ b \in Seq(Byte) /\ d \in Seq(Byte) /\ a \o b = c \o d
<1>1. a \in Seq(Byte) /\ c \in Seq(Byte) /\ Len(a) = Len(c)
  BY ByteStringIsSeq
<1> QED BY <1>1, ConcatSplit

LEMMA ConcatIsAssociative ==
  \A a, b, c : a \in Seq(Byte) /\ b \in Seq(Byte) /\ c \in Seq(Byte)
    => (a \o b) \o c = a \o (b \o c)
BY ConcatAssociative

LEMMA ConcatIsBytes ==
  ASSUME NEW a \in Seq(Byte), NEW b \in Seq(Byte)
  PROVE  a \o b \in Seq(Byte)
BY ConcatProperties

LEMMA TagIsBytes ==
  ASSUME NEW n \in Byte
  PROVE  Variant(n) \in ByteString(1) /\ Variant(n) \in Seq(Byte) /\ (Variant(n))[1] = n
BY DEF ByteString, Variant

LEMMA TagsAreBytes ==
  \A n \in 0 .. 6 : n \in Byte /\ Variant(n) \in Seq(Byte)
<1> TAKE n \in 0 .. 6
<1>1. n \in Byte
  BY DEF Byte
<1> QED BY <1>1, TagIsBytes

LEMMA TagSplit ==
  \A m, n, b, d :
    /\ m \in Byte /\ n \in Byte /\ b \in Seq(Byte) /\ d \in Seq(Byte)
    /\ Variant(m) \o b = Variant(n) \o d
    => m = n /\ b = d
<1> TAKE m, n, b, d
<1> HAVE /\ m \in Byte /\ n \in Byte /\ b \in Seq(Byte) /\ d \in Seq(Byte)
         /\ Variant(m) \o b = Variant(n) \o d
<1>1. Variant(m) \in ByteString(1) /\ Variant(n) \in ByteString(1) /\ 1 \in Nat
  BY TagIsBytes
<1>2. Variant(m) = Variant(n) /\ b = d
  BY <1>1, FieldSplit
<1> QED BY <1>2 DEF Variant

LEMMA WordIsBytes ==
  /\ \A v \in U64 : U64ToLeBytes[v] \in ByteString(WORD_LEN)
  /\ \A v \in I64 : I64ToLeBytes[v] \in ByteString(WORD_LEN)
  /\ \A v, w \in U64 : U64ToLeBytes[v] = U64ToLeBytes[w] => v = w
  /\ \A v, w \in I64 : I64ToLeBytes[v] = I64ToLeBytes[w] => v = w
BY WordsAssumption DEF ToLeBytes

LEMMA LengthsAreNat ==
  COMPRESSED_PUBKEY_LEN \in Nat /\ ADDRESS_LEN \in Nat /\ WORD_LEN \in Nat /\ 1 \in Nat
BY LengthsAssumption

-----------------------------------------------------------------------------
(* Actions. *)

LEMMA GuardianBytes ==
  ASSUME NEW g \in Guardian
  PROVE  SerializeGuardian(g) \in Seq(Byte)
<1>0. 0 \in Byte /\ 1 \in Byte /\ 2 \in Byte
  BY DEF Byte
<1>1. CASE g.kind = "None"
  BY <1>0, <1>1, TagIsBytes DEF SerializeGuardian
<1>2. CASE g.kind = "P256"
  <2>1. g.key \in Seq(Byte)
    BY <1>2, ByteStringIsSeq, LengthsAreNat DEF Guardian, CompressedKey
  <2> QED BY <1>0, <1>2, <2>1, TagIsBytes, ConcatIsBytes DEF SerializeGuardian
<1>3. CASE g.kind = "WebAuthn"
  <2>1. g.key \in Seq(Byte)
    BY <1>3, ByteStringIsSeq, LengthsAreNat DEF Guardian, CompressedKey
  <2> QED BY <1>0, <1>3, <2>1, TagIsBytes, ConcatIsBytes DEF SerializeGuardian
<1> QED BY <1>1, <1>2, <1>3 DEF Guardian

GuardianTag(g) == CASE g.kind = "None" -> 0 [] g.kind = "P256" -> 1 [] g.kind = "WebAuthn" -> 2
GuardianRest(g) == IF g.kind = "None" THEN <<>> ELSE g.key

LEMMA GuardianParts ==
  ASSUME NEW g \in Guardian
  PROVE  /\ GuardianTag(g) \in Byte
         /\ Variant(GuardianTag(g)) \in Seq(Byte)
         /\ GuardianRest(g) \in Seq(Byte)
         /\ SerializeGuardian(g) = Variant(GuardianTag(g)) \o GuardianRest(g)
<1>1. CASE g.kind = "None"
  <2>1. Variant(0) \o <<>> = Variant(0)
    BY TagIsBytes, ConcatEmptySeq DEF Byte
  <2> QED BY <1>1, <2>1, TagIsBytes DEF SerializeGuardian, GuardianTag, GuardianRest, Byte
<1>2. CASE g.kind \in {"P256", "WebAuthn"}
  <2>1. g.key \in Seq(Byte)
    BY <1>2, ByteStringIsSeq, LengthsAreNat DEF Guardian, CompressedKey
  <2>2. CASE g.kind = "P256"
    <3>1. GuardianTag(g) = 1 /\ GuardianRest(g) = g.key
      BY <2>2 DEF GuardianTag, GuardianRest
    <3>2. SerializeGuardian(g) = Variant(1) \o g.key
      BY <2>2 DEF SerializeGuardian
    <3> QED BY <2>1, <3>1, <3>2, TagsAreBytes
  <2>3. CASE g.kind = "WebAuthn"
    <3>1. GuardianTag(g) = 2 /\ GuardianRest(g) = g.key
      BY <2>3 DEF GuardianTag, GuardianRest
    <3>2. SerializeGuardian(g) = Variant(2) \o g.key
      BY <2>3 DEF SerializeGuardian
    <3> QED BY <2>1, <3>1, <3>2, TagsAreBytes
  <2> QED BY <1>2, <2>2, <2>3
<1> QED BY <1>1, <1>2 DEF Guardian

LEMMA GuardianThen ==
  \A g, s : g \in Guardian /\ s \in Seq(Byte)
    => /\ SerializeGuardian(g) \o s = Variant(GuardianTag(g)) \o (GuardianRest(g) \o s)
       /\ GuardianRest(g) \o s \in Seq(Byte)
<1> TAKE g, s
<1> HAVE g \in Guardian /\ s \in Seq(Byte)
<1> DEFINE v == Variant(GuardianTag(g))
           r == GuardianRest(g)
<1>1. v \in Seq(Byte) /\ r \in Seq(Byte) /\ SerializeGuardian(g) = v \o r
  BY GuardianParts
<1> HIDE DEF v, r
<1>2. (v \o r) \o s = v \o (r \o s) /\ r \o s \in Seq(Byte)
  BY <1>1, ConcatIsAssociative, ConcatIsBytes
<1> QED BY <1>1, <1>2 DEF v, r

\* A guardian's bytes end where its tag says: whatever follows, they can be
\* read in one way only.
LEMMA GuardianPrefixFree ==
  \A g, h, s, t :
    /\ g \in Guardian /\ h \in Guardian /\ s \in Seq(Byte) /\ t \in Seq(Byte)
    /\ SerializeGuardian(g) \o s = SerializeGuardian(h) \o t
    => g = h /\ s = t
<1> TAKE g, h, s, t
<1> HAVE /\ g \in Guardian /\ h \in Guardian /\ s \in Seq(Byte) /\ t \in Seq(Byte)
         /\ SerializeGuardian(g) \o s = SerializeGuardian(h) \o t
<1>1. GuardianTag(g) \in Byte /\ GuardianTag(h) \in Byte
  BY GuardianParts
<1>2. /\ Variant(GuardianTag(g)) \o (GuardianRest(g) \o s)
           = Variant(GuardianTag(h)) \o (GuardianRest(h) \o t)
      /\ GuardianRest(g) \o s \in Seq(Byte) /\ GuardianRest(h) \o t \in Seq(Byte)
  BY GuardianThen, Zenon
<1>3. GuardianTag(g) = GuardianTag(h) /\ GuardianRest(g) \o s = GuardianRest(h) \o t
  <2> DEFINE m == GuardianTag(g)
             n == GuardianTag(h)
             b == GuardianRest(g) \o s
             d == GuardianRest(h) \o t
  <2>1. m \in Byte /\ n \in Byte /\ b \in Seq(Byte) /\ d \in Seq(Byte)
        /\ Variant(m) \o b = Variant(n) \o d
    BY <1>1, <1>2
  <2> HIDE DEF m, n, b, d
  <2>2. m = n /\ b = d
    BY <2>1, TagSplit
  <2> QED BY <2>2 DEF m, n, b, d
<1>4. g.kind = h.kind
  BY <1>3 DEF Guardian, GuardianTag
<1>5. CASE g.kind = "None"
  <2>1. g = h
    <3>1. g \in [kind : {"None"}] /\ h \in [kind : {"None"}]
      BY <1>4, <1>5 DEF Guardian
    <3> QED BY <3>1
  <2>2. s = t
    BY <1>3, <1>4, <1>5, ConcatEmptySeq DEF GuardianRest
  <2> QED BY <2>1, <2>2
<1>6. CASE g.kind \in {"P256", "WebAuthn"}
  <2>1. g.key \in CompressedKey /\ h.key \in CompressedKey
    BY <1>4, <1>6 DEF Guardian
  <2>2. g.key \o s = h.key \o t
    BY <1>3, <1>4, <1>6 DEF GuardianRest
  <2>3. g.key = h.key /\ s = t
    BY <2>1, <2>2, FieldSplit, LengthsAreNat DEF CompressedKey
  <2> QED BY <1>4, <1>6, <2>3 DEF Guardian
<1> QED BY <1>5, <1>6 DEF Guardian

LEMMA GuardiansBytes ==
  ASSUME NEW f \in [Slots -> Guardian]
  PROVE  SerializeGuardians(f) \in Seq(Byte)
<1>1. f[0] \in Guardian /\ f[1] \in Guardian /\ f[2] \in Guardian
  BY DEF Slots, MAX_GUARDIANS
<1> QED BY <1>1, GuardianBytes, ConcatIsBytes DEF SerializeGuardians

\* Slots of different lengths, one after the other, do not blur.
LEMMA GuardiansInjective ==
  ASSUME NEW f \in [Slots -> Guardian], NEW h \in [Slots -> Guardian],
         SerializeGuardians(f) = SerializeGuardians(h)
  PROVE  f = h
<1> DEFINE f0 == f[0]  f1 == f[1]  f2 == f[2]  h0 == h[0]  h1 == h[1]  h2 == h[2]
<1>1. /\ f0 \in Guardian /\ f1 \in Guardian /\ f2 \in Guardian
      /\ h0 \in Guardian /\ h1 \in Guardian /\ h2 \in Guardian
  BY DEF Slots, MAX_GUARDIANS
<1>2. SerializeGuardian(f0) \o (SerializeGuardian(f1) \o SerializeGuardian(f2))
        = SerializeGuardian(h0) \o (SerializeGuardian(h1) \o SerializeGuardian(h2))
  BY DEF SerializeGuardians
<1>3. f0 = h0 /\ f1 = h1 /\ f2 = h2
  <2> HIDE DEF f0, f1, f2, h0, h1, h2
  <2> DEFINE s1 == SerializeGuardian(f1)  s2 == SerializeGuardian(f2)
             t1 == SerializeGuardian(h1)  t2 == SerializeGuardian(h2)
  <2>1. s1 \in Seq(Byte) /\ s2 \in Seq(Byte) /\ t1 \in Seq(Byte) /\ t2 \in Seq(Byte)
    BY <1>1, GuardianBytes
  <2>2. s1 \o s2 \in Seq(Byte) /\ t1 \o t2 \in Seq(Byte)
    BY <2>1, ConcatIsBytes
  <2>3. f0 = h0 /\ s1 \o s2 = t1 \o t2
    <3> DEFINE s == s1 \o s2  t == t1 \o t2
    <3>1. SerializeGuardian(f0) \o s = SerializeGuardian(h0) \o t
      BY <1>2
    <3>2. s \in Seq(Byte) /\ t \in Seq(Byte)
      BY <2>2
    <3> HIDE DEF s, t
    <3>3. f0 = h0 /\ s = t
      BY <1>1, <3>1, <3>2, GuardianPrefixFree
    <3> QED BY <3>3 DEF s, t
  <2>4. f1 = h1 /\ s2 = t2
    BY <1>1, <2>1, <2>3, GuardianPrefixFree
  <2>5. s2 \o <<>> = t2 \o <<>> /\ <<>> \in Seq(Byte)
    BY <2>4, EmptySeq
  <2>6. f2 = h2
    BY <1>1, <2>5, GuardianPrefixFree
  <2> QED BY <2>3, <2>4, <2>6
<1> QED BY <1>3 DEF Slots, MAX_GUARDIANS

ActionTag(a) ==
  CASE a.kind = "TransferSol" -> 0
    [] a.kind = "TransferToken" -> 1
    [] a.kind = "ProposeRotation" -> 2
    [] a.kind = "CancelRotation" -> 3
    [] a.kind = "SetGuardians" -> 4
    [] a.kind = "SweepVault" -> 5
    [] a.kind = "CloseWallet" -> 6

ActionRest(a) ==
  CASE a.kind = "TransferSol" -> a.to \o U64ToLeBytes[a.lamports]
    [] a.kind = "TransferToken" -> a.mint \o (a.to \o U64ToLeBytes[a.amount])
    [] a.kind = "ProposeRotation" -> a.new_key
    [] a.kind = "CancelRotation" -> <<>>
    [] a.kind = "SetGuardians" -> SerializeGuardians(a.guardians)
    [] a.kind = "SweepVault" -> a.to
    [] a.kind = "CloseWallet" -> a.to

Kinds == {"TransferSol", "TransferToken", "ProposeRotation", "CancelRotation",
          "SetGuardians", "SweepVault", "CloseWallet"}

\* What the fields of each variant are.
LEMMA ActionFields ==
  ASSUME NEW a \in Action
  PROVE  /\ a.kind \in Kinds
         /\ a.kind = "TransferSol" =>
              a \in [kind : {"TransferSol"}, to : Address, lamports : U64]
         /\ a.kind = "TransferToken" =>
              a \in [kind : {"TransferToken"}, mint : Address, to : Address, amount : U64]
         /\ a.kind = "ProposeRotation" =>
              a \in [kind : {"ProposeRotation"}, new_key : CompressedKey]
         /\ a.kind = "CancelRotation" => a \in [kind : {"CancelRotation"}]
         /\ a.kind = "SetGuardians" =>
              a \in [kind : {"SetGuardians"}, guardians : [Slots -> Guardian]]
         /\ a.kind \in {"SweepVault", "CloseWallet"} =>
              a \in [kind : {"SweepVault", "CloseWallet"}, to : Address]
BY DEF Action, Kinds

LEMMA AddressIsBytes ==
  \A a \in Address : a \in Seq(Byte)
BY ByteStringIsSeq, LengthsAreNat DEF Address

LEMMA WordIsSeq ==
  /\ \A v \in U64 : U64ToLeBytes[v] \in Seq(Byte)
  /\ \A v \in I64 : I64ToLeBytes[v] \in Seq(Byte)
BY WordIsBytes, ByteStringIsSeq, LengthsAreNat

LEMMA ActionParts ==
  ASSUME NEW a \in Action
  PROVE  /\ ActionTag(a) \in Byte
         /\ ActionRest(a) \in Seq(Byte)
         /\ Serialize(a) = Variant(ActionTag(a)) \o ActionRest(a)
         /\ Serialize(a) \in Seq(Byte)
<1>1. ActionTag(a) \in 0 .. 6
  BY ActionFields DEF ActionTag, Kinds
<1>2. ActionRest(a) \in Seq(Byte)
  <2>1. CASE a.kind = "TransferSol"
    <3>1. a.to \in Seq(Byte) /\ U64ToLeBytes[a.lamports] \in Seq(Byte)
      BY <2>1, ActionFields, AddressIsBytes, WordIsSeq
    <3> QED BY <2>1, <3>1, ConcatIsBytes DEF ActionRest
  <2>2. CASE a.kind = "TransferToken"
    <3>1. /\ a.mint \in Seq(Byte) /\ a.to \in Seq(Byte)
          /\ U64ToLeBytes[a.amount] \in Seq(Byte)
      BY <2>2, ActionFields, AddressIsBytes, WordIsSeq
    <3> QED BY <2>2, <3>1, ConcatIsBytes DEF ActionRest
  <2>3. CASE a.kind = "ProposeRotation"
    BY <2>3, ActionFields, ByteStringIsSeq, LengthsAreNat DEF ActionRest, CompressedKey
  <2>4. CASE a.kind = "CancelRotation"
    BY <2>4, EmptySeq DEF ActionRest
  <2>5. CASE a.kind = "SetGuardians"
    BY <2>5, ActionFields, GuardiansBytes DEF ActionRest
  <2>6. CASE a.kind \in {"SweepVault", "CloseWallet"}
    BY <2>6, ActionFields, AddressIsBytes DEF ActionRest
  <2> QED BY <2>1, <2>2, <2>3, <2>4, <2>5, <2>6, ActionFields DEF Kinds
<1>3. Serialize(a) = Variant(ActionTag(a)) \o ActionRest(a)
  <2>1. CASE a.kind = "CancelRotation"
    <3>1. Variant(3) \o <<>> = Variant(3)
      BY TagsAreBytes, ConcatEmptySeq
    <3> QED BY <2>1, <3>1 DEF Serialize, ActionTag, ActionRest
  <2>2. CASE a.kind \in Kinds \ {"CancelRotation"}
    BY <2>2 DEF Serialize, ActionTag, ActionRest, Kinds
  <2> QED BY <2>1, <2>2, ActionFields
<1>4. Variant(ActionTag(a)) \in Seq(Byte) /\ ActionTag(a) \in Byte
  BY <1>1, TagsAreBytes
<1> QED BY <1>2, <1>3, <1>4, ConcatIsBytes

LEMMA ActionInjective ==
  ASSUME NEW a \in Action, NEW b \in Action, Serialize(a) = Serialize(b)
  PROVE  a = b
<1>1. ActionTag(a) = ActionTag(b) /\ ActionRest(a) = ActionRest(b)
  <2> DEFINE m == ActionTag(a)  n == ActionTag(b)  s == ActionRest(a)  t == ActionRest(b)
  <2>1. m \in Byte /\ n \in Byte /\ s \in Seq(Byte) /\ t \in Seq(Byte)
        /\ Variant(m) \o s = Variant(n) \o t
    BY ActionParts
  <2> HIDE DEF m, n, s, t
  <2>2. m = n /\ s = t
    BY <2>1, TagSplit
  <2> QED BY <2>2 DEF m, n, s, t
<1>2. a.kind = b.kind
  BY <1>1, ActionFields DEF ActionTag, Kinds
<1>3. CASE a.kind = "TransferSol"
  <2> DEFINE v == U64ToLeBytes[a.lamports]  w == U64ToLeBytes[b.lamports]
  <2>1. /\ a.to \in Address /\ b.to \in Address /\ a.lamports \in U64 /\ b.lamports \in U64
    BY <1>2, <1>3, ActionFields
  <2>2. a.to \o v = b.to \o w /\ v \in Seq(Byte) /\ w \in Seq(Byte)
    BY <1>1, <1>2, <1>3, <2>1, WordIsSeq DEF ActionRest
  <2>3. a.to = b.to /\ v = w
    <3> HIDE DEF v, w
    <3> QED BY <2>1, <2>2, FieldSplit, LengthsAreNat DEF Address
  <2>4. a.lamports = b.lamports
    BY <2>1, <2>3, WordIsBytes
  <2>5. /\ a \in [kind : {"TransferSol"}, to : Address, lamports : U64]
        /\ b \in [kind : {"TransferSol"}, to : Address, lamports : U64]
    BY <1>2, <1>3, ActionFields
  <2> QED BY <1>2, <2>3, <2>4, <2>5
<1>4. CASE a.kind = "TransferToken"
  <2> DEFINE v == U64ToLeBytes[a.amount]  w == U64ToLeBytes[b.amount]
             s == a.to \o v  t == b.to \o w
  <2>1. /\ a.to \in Address /\ b.to \in Address /\ a.amount \in U64 /\ b.amount \in U64
        /\ a.mint \in Address /\ b.mint \in Address
    BY <1>2, <1>4, ActionFields
  <2>2. v \in Seq(Byte) /\ w \in Seq(Byte)
    BY <2>1, WordIsSeq
  <2>3. s \in Seq(Byte) /\ t \in Seq(Byte)
    BY <2>1, <2>2, AddressIsBytes, ConcatIsBytes
  <2>4. a.mint \o s = b.mint \o t
    BY <1>1, <1>2, <1>4 DEF ActionRest
  <2>5. a.mint = b.mint /\ s = t
    <3> HIDE DEF s, t
    <3> QED BY <2>1, <2>3, <2>4, FieldSplit, LengthsAreNat DEF Address
  <2>6. a.to = b.to /\ v = w
    <3>1. a.to \o v = b.to \o w
      BY <2>5
    <3> HIDE DEF v, w
    <3> QED BY <2>1, <2>2, <3>1, FieldSplit, LengthsAreNat DEF Address
  <2>7. a.amount = b.amount
    BY <2>1, <2>6, WordIsBytes
  <2>8. /\ a \in [kind : {"TransferToken"}, mint : Address, to : Address, amount : U64]
        /\ b \in [kind : {"TransferToken"}, mint : Address, to : Address, amount : U64]
    BY <1>2, <1>4, ActionFields
  <2> QED BY <1>2, <2>5, <2>6, <2>7, <2>8
<1>5. CASE a.kind = "ProposeRotation"
  <2>1. a.new_key = b.new_key
    BY <1>1, <1>2, <1>5 DEF ActionRest
  <2>2. /\ a \in [kind : {"ProposeRotation"}, new_key : CompressedKey]
        /\ b \in [kind : {"ProposeRotation"}, new_key : CompressedKey]
    BY <1>2, <1>5, ActionFields
  <2> QED BY <1>2, <2>1, <2>2
<1>6. CASE a.kind = "CancelRotation"
  <2>1. a \in [kind : {"CancelRotation"}] /\ b \in [kind : {"CancelRotation"}]
    BY <1>2, <1>6, ActionFields
  <2> QED BY <1>2, <2>1
<1>7. CASE a.kind = "SetGuardians"
  <2>1. a.guardians = b.guardians
    BY <1>1, <1>2, <1>7, ActionFields, GuardiansInjective DEF ActionRest
  <2>2. /\ a \in [kind : {"SetGuardians"}, guardians : [Slots -> Guardian]]
        /\ b \in [kind : {"SetGuardians"}, guardians : [Slots -> Guardian]]
    BY <1>2, <1>7, ActionFields
  <2> QED BY <1>2, <2>1, <2>2
<1>8. CASE a.kind \in {"SweepVault", "CloseWallet"}
  <2>1. a.to = b.to
    BY <1>1, <1>2, <1>8 DEF ActionRest
  <2>2. /\ a \in [kind : {"SweepVault", "CloseWallet"}, to : Address]
        /\ b \in [kind : {"SweepVault", "CloseWallet"}, to : Address]
    BY <1>2, <1>8, ActionFields
  <2> QED BY <1>2, <2>1, <2>2
<1> QED BY <1>3, <1>4, <1>5, <1>6, <1>7, <1>8, ActionFields DEF Kinds

-----------------------------------------------------------------------------
(* The preimage. *)

LEMMA RequestFields ==
  ASSUME NEW r \in Request
  PROVE  /\ r.wallet_id \in Address /\ r.nonce \in U64 /\ r.expires_at \in I64
         /\ r.max_relayer_fee \in U64 /\ r.action \in Action
BY DEF Request

\* The parts of a preimage behind the program ID, field by field.
Body5(r) == Serialize(r.action)
Body4(r) == U64ToLeBytes[r.max_relayer_fee] \o Body5(r)
Body3(r) == I64ToLeBytes[r.expires_at] \o Body4(r)
Body2(r) == U64ToLeBytes[r.nonce] \o Body3(r)
Body1(r) == r.wallet_id \o Body2(r)

LEMMA BodiesAreBytes ==
  ASSUME NEW r \in Request
  PROVE  /\ Body5(r) \in Seq(Byte) /\ Body4(r) \in Seq(Byte) /\ Body3(r) \in Seq(Byte)
         /\ Body2(r) \in Seq(Byte) /\ Body1(r) \in Seq(Byte)
<1>1. /\ U64ToLeBytes[r.max_relayer_fee] \in Seq(Byte) /\ I64ToLeBytes[r.expires_at] \in Seq(Byte)
      /\ U64ToLeBytes[r.nonce] \in Seq(Byte) /\ r.wallet_id \in Seq(Byte)
  BY RequestFields, WordIsSeq, AddressIsBytes
<1>2. Body5(r) \in Seq(Byte)
  BY RequestFields, ActionParts DEF Body5
<1>3. Body4(r) \in Seq(Byte)
  BY <1>1, <1>2, ConcatIsBytes DEF Body4
<1>4. Body3(r) \in Seq(Byte)
  BY <1>1, <1>3, ConcatIsBytes DEF Body3
<1>5. Body2(r) \in Seq(Byte)
  BY <1>1, <1>4, ConcatIsBytes DEF Body2
<1> QED BY <1>1, <1>2, <1>3, <1>4, <1>5, ConcatIsBytes DEF Body1

LEMMA DomainTagFirst ==
  ASSUME NEW p \in Address, NEW r \in Request
  PROVE  /\ ToBytes(p, r) = DOMAIN_TAG \o (p \o Body1(r))
         /\ DOMAIN_TAG \in Seq(Byte) /\ p \o Body1(r) \in Seq(Byte)
         /\ ToBytes(p, r) \in Seq(Byte)
         /\ HasDomainTag(ToBytes(p, r))
<1> DEFINE rest == p \o Body1(r)
<1>1. ToBytes(p, r) = DOMAIN_TAG \o rest
  BY DEF ToBytes, Body1, Body2, Body3, Body4, Body5
<1>2. DOMAIN_TAG \in Seq(Byte) /\ rest \in Seq(Byte)
  BY LengthsAssumption, AddressIsBytes, BodiesAreBytes, ConcatIsBytes
<1> HIDE DEF rest
<1> DEFINE m == DOMAIN_TAG \o rest
           n == Len(DOMAIN_TAG)
<1>3. /\ m \in Seq(Byte) /\ Len(m) = n + Len(rest) /\ n \in Nat /\ Len(rest) \in Nat
      /\ \A i \in 1 .. n : m[i] = DOMAIN_TAG[i]
  BY <1>2, ConcatProperties, LenProperties
<1>4. Len(m) >= n
  BY <1>3
<1>5. SubSeq(m, 1, n) = DOMAIN_TAG
  <2> HIDE DEF m
  <2> DEFINE prefix == SubSeq(m, 1, n)
  <2>1. \A i \in 1 .. n : m[i] \in Byte
    BY <1>3, <1>4, ElementOfSeq
  <2>2. prefix \in Seq(Byte) /\ Len(prefix) = n /\ \A i \in 1 .. n : prefix[i] = m[i]
    BY <1>3, <2>1, SubSeqProperties
  <2>3. \A i \in 1 .. Len(prefix) : prefix[i] = DOMAIN_TAG[i]
    BY <1>3, <2>2
  <2> QED BY <1>2, <2>2, <2>3, SeqEqual
<1> QED BY <1>1, <1>2, <1>3, <1>4, <1>5 DEF HasDomainTag, rest

\* The bytes an enclave signs determine the program and every field of the
\* request: Preimage::to_bytes is injective, guardians of any kind included.
THEOREM PreimageInjective ==
  ASSUME NEW p \in Address, NEW q \in Address,
         NEW r \in Request, NEW s \in Request, ToBytes(p, r) = ToBytes(q, s)
  PROVE  p = q /\ r = s
<1>1. p \o Body1(r) = q \o Body1(s)
  <2>1. DOMAIN_TAG \o (p \o Body1(r)) = DOMAIN_TAG \o (q \o Body1(s))
    BY DomainTagFirst
  <2>2. DOMAIN_TAG \in Seq(Byte) /\ p \o Body1(r) \in Seq(Byte) /\ q \o Body1(s) \in Seq(Byte)
    BY DomainTagFirst
  <2> QED BY <2>1, <2>2, ConcatSimplifications, Zenon
<1>2. /\ Body1(r) \in Seq(Byte) /\ Body1(s) \in Seq(Byte)
      /\ Body2(r) \in Seq(Byte) /\ Body2(s) \in Seq(Byte)
      /\ Body3(r) \in Seq(Byte) /\ Body3(s) \in Seq(Byte)
      /\ Body4(r) \in Seq(Byte) /\ Body4(s) \in Seq(Byte)
      /\ Body5(r) \in Seq(Byte) /\ Body5(s) \in Seq(Byte)
  BY BodiesAreBytes
<1>3. p = q /\ Body1(r) = Body1(s)
  BY <1>1, <1>2, FieldSplit, LengthsAreNat DEF Address
<1>4. r.wallet_id = s.wallet_id /\ Body2(r) = Body2(s)
  <2>1. r.wallet_id \o Body2(r) = s.wallet_id \o Body2(s)
    BY <1>3 DEF Body1
  <2>2. r.wallet_id \in ByteString(ADDRESS_LEN) /\ s.wallet_id \in ByteString(ADDRESS_LEN)
    BY RequestFields DEF Address
  <2> QED BY <1>2, <2>1, <2>2, FieldSplit, LengthsAreNat
<1>5. r.nonce = s.nonce /\ Body3(r) = Body3(s)
  <2> DEFINE v == U64ToLeBytes[r.nonce]  w == U64ToLeBytes[s.nonce]
  <2>1. v \o Body3(r) = w \o Body3(s)
    BY <1>4 DEF Body2
  <2>2. v \in ByteString(WORD_LEN) /\ w \in ByteString(WORD_LEN)
    BY RequestFields, WordIsBytes
  <2>3. v = w /\ Body3(r) = Body3(s)
    <3> HIDE DEF v, w
    <3> QED BY <1>2, <2>1, <2>2, FieldSplit, LengthsAreNat
  <2> QED BY <2>3, RequestFields, WordIsBytes
<1>6. r.expires_at = s.expires_at /\ Body4(r) = Body4(s)
  <2> DEFINE v == I64ToLeBytes[r.expires_at]  w == I64ToLeBytes[s.expires_at]
  <2>1. v \o Body4(r) = w \o Body4(s)
    BY <1>5 DEF Body3
  <2>2. v \in ByteString(WORD_LEN) /\ w \in ByteString(WORD_LEN)
    BY RequestFields, WordIsBytes
  <2>3. v = w /\ Body4(r) = Body4(s)
    <3> HIDE DEF v, w
    <3> QED BY <1>2, <2>1, <2>2, FieldSplit, LengthsAreNat
  <2> QED BY <2>3, RequestFields, WordIsBytes
<1>7. r.max_relayer_fee = s.max_relayer_fee /\ Body5(r) = Body5(s)
  <2> DEFINE v == U64ToLeBytes[r.max_relayer_fee]  w == U64ToLeBytes[s.max_relayer_fee]
  <2>1. v \o Body5(r) = w \o Body5(s)
    BY <1>6 DEF Body4
  <2>2. v \in ByteString(WORD_LEN) /\ w \in ByteString(WORD_LEN)
    BY RequestFields, WordIsBytes
  <2>3. v = w /\ Body5(r) = Body5(s)
    <3> HIDE DEF v, w
    <3> QED BY <1>2, <2>1, <2>2, FieldSplit, LengthsAreNat
  <2> QED BY <2>3, RequestFields, WordIsBytes
<1>8. r.action = s.action
  BY <1>7, RequestFields, ActionInjective DEF Body5
<1> QED BY <1>3, <1>4, <1>5, <1>6, <1>7, <1>8 DEF Request

-----------------------------------------------------------------------------
(* The transaction. *)

\* The runtime has verified every precompile instruction already run.
VerifiedBehind ==
  \A i \in 1 .. at - 1 : tx[i].program = SECP256R1_PROGRAM_ID => Verified(tx, i)

IInv == TypeOK /\ VerifiedBehind /\ AcceptedWasApproved

\* What the program loads is what the runtime verified: the five checks leave
\* it no other bytes to read.
LEMMA LoadedIsVerified ==
  ASSUME NEW t \in Seq(Instruction), NEW i \in 2 .. Len(t),
         LoadsPayload(t, i), Verified(t, i - 1)
  PROVE  \E s \in Verifying :
           s.pubkey = SignedPayload(t, i).pubkey /\ s.message = SignedPayload(t, i).message
<1> DEFINE data == t[i - 1].data
           o == Parse(data, PRECOMPILE_OFFSETS_START)
           payload == SignedPayload(t, i)
<1>1. i - 1 \in 1 .. Len(t) /\ t[i - 1] \in Instruction /\ data \in Seq(Byte) /\ Len(data) \in Nat
  <2>1. i - 1 \in 1 .. Len(t)
    BY LenProperties
  <2>2. t[i - 1] \in Instruction
    BY <2>1, ElementOfSeq
  <2> QED BY <2>1, <2>2, LenProperties DEF Instruction
<1>2. At(data, 0) = 1 /\ FixedLayout(o) /\ MessageEndsData(data, o)
  BY DEF LoadsPayload
<1>3. SignatureVerifies(t, i - 1, o)
  <2>1. 0 \in 0 .. At(data, 0) - 1
    BY <1>2
  <2>2. PRECOMPILE_OFFSETS_START + 0 * PRECOMPILE_OFFSETS_LEN = PRECOMPILE_OFFSETS_START
    BY DEF PRECOMPILE_OFFSETS_START, PRECOMPILE_OFFSETS_LEN
  <2>3. \A j \in 0 .. At(data, 0) - 1 :
          SignatureVerifies(t, i - 1,
            Parse(data, PRECOMPILE_OFFSETS_START + j * PRECOMPILE_OFFSETS_LEN))
    BY DEF Verified
  <2> QED BY <2>1, <2>2, <2>3
<1>4. /\ o.public_key_instruction_index = PRECOMPILE_CURRENT_INSTRUCTION
      /\ o.message_instruction_index = PRECOMPILE_CURRENT_INSTRUCTION
      /\ o.public_key_offset = SECP256R1_PUBKEY_OFFSET
      /\ o.message_data_offset = SECP256R1_MESSAGE_OFFSET
      /\ SECP256R1_MESSAGE_OFFSET + o.message_data_size = Len(data)
  <2> HIDE DEF data, o
  <2> QED BY <1>2 DEF FixedLayout, MessageEndsData
<1>5. /\ payload.pubkey = GetDataSlice(t, i - 1, o.public_key_instruction_index,
                                        o.public_key_offset, COMPRESSED_PUBKEY_LEN)
      /\ payload.message = GetDataSlice(t, i - 1, o.message_instruction_index,
                                         o.message_data_offset, o.message_data_size)
  <2> HIDE DEF o
  <2> QED BY <1>4 DEF SignedPayload, GetDataSlice, From, Slice
<1> QED
  <2> HIDE DEF o
  <2> QED BY <1>3, <1>5 DEF SignatureVerifies

\* A payload that is the preimage of a request was approved as that request.
LEMMA AcceptedIsApproved ==
  ASSUME NEW t \in Seq(Instruction), NEW i \in 1 .. Len(t), NEW r \in Request,
         Accepts(t, i, r),
         \A j \in 1 .. i - 1 : t[j].program = SECP256R1_PROGRAM_ID => Verified(t, j)
  PROVE  /\ SignedPayload(t, i).pubkey \in CompressedKey
         /\ [key |-> SignedPayload(t, i).pubkey, program_id |-> ProgramId, request |-> r]
               \in Approvals
<1>1. i \in 2 .. Len(t) /\ LoadsPayload(t, i) /\ Verified(t, i - 1)
      /\ SignedPayload(t, i).message = ToBytes(ProgramId, r)
  BY LenProperties DEF Accepts, LoadsPayload
<1>2. PICK s \in Verifying :
        s.pubkey = SignedPayload(t, i).pubkey /\ s.message = SignedPayload(t, i).message
  BY <1>1, LoadedIsVerified
<1>3. ProgramId \in Address
  BY TransactionsAssumption
<1>4. HasDomainTag(s.message)
  BY <1>1, <1>2, <1>3, DomainTagFirst
<1>5. PICK a \in Approvals : s.pubkey = a.key /\ s.message = ToBytes(a.program_id, a.request)
  BY <1>4, UnforgeableAssumption
<1>6. a \in [key : CompressedKey, program_id : Address, request : Request]
  BY TransactionsAssumption
<1>7. a.program_id = ProgramId /\ a.request = r
  <2>1. a.program_id \in Address /\ a.request \in Request
    BY <1>6
  <2>2. ToBytes(a.program_id, a.request) = ToBytes(ProgramId, r)
    BY <1>1, <1>2, <1>5
  <2> QED BY <1>3, <2>1, <2>2, PreimageInjective
<1>8. a = [key |-> SignedPayload(t, i).pubkey, program_id |-> ProgramId, request |-> r]
  BY <1>2, <1>5, <1>6, <1>7
<1> QED BY <1>2, <1>5, <1>6, <1>8

LEMMA InitInvariant == Init => IInv
BY EmptySeq DEF Init, IInv, TypeOK, VerifiedBehind, AcceptedWasApproved

LEMMA StepInvariant == IInv /\ [Next]_vars => IInv'
<1> SUFFICES ASSUME IInv, [Next]_vars PROVE IInv'
  OBVIOUS
<1>0. tx \in Seq(Instruction) /\ Len(tx) \in Nat /\ at \in 1 .. Len(tx) + 1
  BY LenProperties DEF IInv, TypeOK
<1>1. CASE Submit
  <2>1. tx' \in Seq(Instruction) /\ Len(tx') \in Nat
    BY <1>1, TransactionsAssumption, LenProperties DEF Submit
  <2>2. at' = 1 /\ accepted' = accepted
    BY <1>0, <1>1, EmptySeq DEF Submit
  <2> QED BY <2>1, <2>2 DEF IInv, TypeOK, VerifiedBehind, AcceptedWasApproved
<1>2. CASE Run
  <2>1. at \in 1 .. Len(tx) /\ tx' = tx /\ at' = at + 1 /\ Runs(tx, at)
        /\ accepted' = accepted \union Accepted(tx, at)
    BY <1>0, <1>2 DEF Run
  <2>2. VerifiedBehind'
    <3> SUFFICES ASSUME NEW i \in 1 .. at, tx[i].program = SECP256R1_PROGRAM_ID
                 PROVE  Verified(tx, i)
      BY <2>1 DEF VerifiedBehind
    <3>1. CASE i = at
      BY <2>1, <3>1 DEF Runs
    <3>2. CASE i # at
      BY <1>0, <3>2 DEF IInv, VerifiedBehind
    <3> QED BY <3>1, <3>2
  <2>3. \A a \in Accepted(tx, at) :
          /\ a \in [key : CompressedKey, request : Request]
          /\ [key |-> a.key, program_id |-> ProgramId, request |-> a.request] \in Approvals
    <3> SUFFICES ASSUME NEW r \in tx[at].calls, tx[at].program # SECP256R1_PROGRAM_ID
                 PROVE  /\ r \in Request /\ SignedPayload(tx, at).pubkey \in CompressedKey
                        /\ [key |-> SignedPayload(tx, at).pubkey, program_id |-> ProgramId,
                             request |-> r] \in Approvals
      BY DEF Accepted
    <3>1. tx[at] \in Instruction
      BY <1>0, <2>1, ElementOfSeq
    <3>2. r \in Request
      BY <3>1 DEF Instruction
    <3>3. Accepts(tx, at, r)
      BY <2>1 DEF Runs
    <3> QED BY <1>0, <2>1, <3>2, <3>3, AcceptedIsApproved DEF IInv, VerifiedBehind
  <2>4. AcceptedWasApproved'
    BY <2>1, <2>3 DEF IInv, AcceptedWasApproved
  <2>5. TypeOK'
    <3>1. Accepted(tx, at) \subseteq [key : CompressedKey, request : Request]
      BY <2>3
    <3> QED BY <1>0, <2>1, <3>1 DEF IInv, TypeOK
  <2> QED BY <2>2, <2>4, <2>5 DEF IInv
<1>3. CASE Fail \/ Commit
  <2>1. tx' = <<>> /\ at' = 1 /\ accepted' = {}
    BY <1>3 DEF Fail, Commit, Ended
  <2>2. tx' \in Seq(Instruction) /\ Len(tx') = 0
    BY <2>1, EmptySeq
  <2> QED BY <2>1, <2>2 DEF IInv, TypeOK, VerifiedBehind, AcceptedWasApproved
<1>4. CASE UNCHANGED vars
  BY <1>4 DEF vars, IInv, TypeOK, VerifiedBehind, AcceptedWasApproved
<1> QED BY <1>1, <1>2, <1>3, <1>4 DEF Next

\* Whatever instructions surround it, whatever their offsets point at: the
\* program accepts in the name of a key only a request its enclave approved
\* for this program.
THEOREM OnlyApprovedIsAccepted == Spec => []AcceptedWasApproved
<1>1. Init => IInv
  BY InitInvariant
<1>2. IInv /\ [Next]_vars => IInv'
  BY StepInvariant
<1>3. IInv => AcceptedWasApproved
  BY DEF IInv
<1> QED BY <1>1, <1>2, <1>3, PTL DEF Spec

-----------------------------------------------------------------------------
(* What the SDK builds. *)

Bytes == Seq(Int)

\* A part behind the bytes before it, index by index.
LEMMA Behind ==
  ASSUME NEW s \in Bytes, NEW t \in Bytes
  PROVE  /\ s \o t \in Bytes
         /\ Len(s \o t) = Len(s) + Len(t)
         /\ \A i \in 1 .. Len(s) : (s \o t)[i] = s[i]
         /\ \A i \in 1 .. Len(t) : (s \o t)[Len(s) + i] = t[i]
<1>1. /\ s \o t \in Bytes /\ Len(s \o t) = Len(s) + Len(t)
      /\ \A i \in 1 .. Len(s) + Len(t) :
           (s \o t)[i] = IF i <= Len(s) THEN s[i] ELSE t[i - Len(s)]
  BY ConcatProperties DEF Bytes
<1>2. Len(s) \in Nat /\ Len(t) \in Nat
  BY DEF Bytes
<1>3. \A i \in 1 .. Len(t) : (s \o t)[Len(s) + i] = t[i]
  BY <1>1, <1>2
<1> QED
  BY <1>1, <1>2, <1>3

\* to_le_bytes of a u16, and from_le_bytes of it.
LEMMA LittleEndian ==
  ASSUME NEW n \in Nat
  PROVE  /\ ToLeBytes16(n) \in Bytes /\ Len(ToLeBytes16(n)) = 2
         /\ ToLeBytes16(n)[1] + 256 * ToLeBytes16(n)[2] = n
<1>1. n % 256 \in Int /\ n \div 256 \in Int /\ (n % 256) + 256 * (n \div 256) = n
  OBVIOUS
<1> DEFINE low == n % 256
<1> DEFINE high == n \div 256
<1>2. ToLeBytes16(n) = <<low, high>>
  BY DEF ToLeBytes16
<1> HIDE DEF low, high
<1>3. low \in Int /\ high \in Int /\ low + 256 * high = n
  BY <1>1 DEF low, high
<1> QED
  BY <1>2, <1>3 DEF Bytes

\* The count, a byte of padding and the first `k` of the fields.
Headed(s, k, v) ==
  /\ s \in Bytes /\ Len(s) = 2 * k + 2 /\ s[1] = 1
  /\ \A i \in 1 .. k : U16FromLeBytes(s, 2 * i) = v[i]

\* One more u16, at the end of the bytes before it: they still read the same.
LEMMA OneMoreField ==
  ASSUME NEW s, NEW v, NEW k \in Nat, Headed(s, k, v), v[k + 1] \in Nat
  PROVE  Headed(s \o ToLeBytes16(v[k + 1]), k + 1, v)
<1> DEFINE n == v[k + 1]
<1> DEFINE w == ToLeBytes16(n)
<1> DEFINE t == s \o w
<1>1. w \in Bytes /\ Len(w) = 2 /\ w[1] + 256 * w[2] = n
  BY LittleEndian
<1>2. s \in Bytes /\ Len(s) = 2 * k + 2 /\ s[1] = 1
  BY DEF Headed
<1> HIDE DEF n, w, t
<1>3. /\ t \in Bytes /\ Len(t) = Len(s) + Len(w)
      /\ \A i \in 1 .. Len(s) : t[i] = s[i]
      /\ \A i \in 1 .. Len(w) : t[Len(s) + i] = w[i]
  BY <1>1, <1>2, Behind DEF t
<1>4. Len(t) = 2 * (k + 1) + 2 /\ t[1] = 1
  BY <1>1, <1>2, <1>3
<1>5. U16FromLeBytes(t, 2 * (k + 1)) = n
  <2>1. 1 \in 1 .. Len(w) /\ 2 \in 1 .. Len(w)
    BY <1>1
  <2>2. t[2 * k + 2 + 1] = w[1] /\ t[2 * k + 2 + 2] = w[2]
    BY <1>2, <1>3, <2>1
  <2>3. 2 * (k + 1) + 1 = 2 * k + 2 + 1 /\ 2 * (k + 1) + 1 + 1 = 2 * k + 2 + 2
    OBVIOUS
  <2> QED
    BY <1>1, <2>2, <2>3 DEF U16FromLeBytes, At
<1>6. ASSUME NEW i \in 1 .. k
      PROVE  U16FromLeBytes(t, 2 * i) = v[i]
  <2>1. 2 * i + 1 \in 1 .. Len(s) /\ 2 * i + 1 + 1 \in 1 .. Len(s)
    BY <1>2
  <2>2. t[2 * i + 1] = s[2 * i + 1] /\ t[2 * i + 1 + 1] = s[2 * i + 1 + 1]
    BY <1>3, <2>1
  <2>3. U16FromLeBytes(s, 2 * i) = v[i]
    BY DEF Headed
  <2> QED
    BY <2>2, <2>3 DEF U16FromLeBytes, At
<1>7. ASSUME NEW i \in 1 .. k + 1
      PROVE  U16FromLeBytes(t, 2 * i) = v[i]
  <2>1. i = k + 1 \/ i \in 1 .. k
    OBVIOUS
  <2> QED
    BY <1>5, <1>6, <2>1 DEF n
<1> QED
  BY <1>3, <1>4, <1>7 DEF Headed, t, w, n

\* The header in front of the signature, the key and the message.
Header(v) ==
  <<1, 0>> \o ToLeBytes16(v[1]) \o ToLeBytes16(v[2]) \o ToLeBytes16(v[3]) \o ToLeBytes16(v[4])
    \o ToLeBytes16(v[5]) \o ToLeBytes16(v[6]) \o ToLeBytes16(v[7])

\* The header of the client's data, parsed, is what it was built from.
LEMMA HeaderFields ==
  ASSUME NEW v \in [1 .. 7 -> Nat]
  PROVE  Headed(Header(v), 7, v)
<1> DEFINE h0 == <<1, 0>>
<1> DEFINE h1 == h0 \o ToLeBytes16(v[1])
<1> DEFINE h2 == h1 \o ToLeBytes16(v[2])
<1> DEFINE h3 == h2 \o ToLeBytes16(v[3])
<1> DEFINE h4 == h3 \o ToLeBytes16(v[4])
<1> DEFINE h5 == h4 \o ToLeBytes16(v[5])
<1> DEFINE h6 == h5 \o ToLeBytes16(v[6])
<1> DEFINE h7 == h6 \o ToLeBytes16(v[7])
<1>1. \A k \in 0 .. 6 : v[k + 1] \in Nat
  OBVIOUS
<1>2. \A s : \A k \in 0 .. 6 :
        Headed(s, k, v) => Headed(s \o ToLeBytes16(v[k + 1]), k + 1, v)
  BY <1>1, OneMoreField
<1>3. Headed(h0, 0, v)
  BY DEF Headed, Bytes
<1>4. Headed(h1, 1, v)
  <2> HIDE DEF h0
  <2>1. Headed(h0 \o ToLeBytes16(v[0 + 1]), 0 + 1, v)
    BY <1>3, <1>2
  <2> QED
    BY <2>1
<1>5. Headed(h2, 2, v)
  <2> HIDE DEF h1
  <2>1. Headed(h1 \o ToLeBytes16(v[1 + 1]), 1 + 1, v)
    BY <1>4, <1>2
  <2> QED
    BY <2>1
<1>6. Headed(h3, 3, v)
  <2> HIDE DEF h2
  <2>1. Headed(h2 \o ToLeBytes16(v[2 + 1]), 2 + 1, v)
    BY <1>5, <1>2
  <2> QED
    BY <2>1
<1>7. Headed(h4, 4, v)
  <2> HIDE DEF h3
  <2>1. Headed(h3 \o ToLeBytes16(v[3 + 1]), 3 + 1, v)
    BY <1>6, <1>2
  <2> QED
    BY <2>1
<1>8. Headed(h5, 5, v)
  <2> HIDE DEF h4
  <2>1. Headed(h4 \o ToLeBytes16(v[4 + 1]), 4 + 1, v)
    BY <1>7, <1>2
  <2> QED
    BY <2>1
<1>9. Headed(h6, 6, v)
  <2> HIDE DEF h5
  <2>1. Headed(h5 \o ToLeBytes16(v[5 + 1]), 5 + 1, v)
    BY <1>8, <1>2
  <2> QED
    BY <2>1
<1>10. Headed(h7, 7, v)
  <2> HIDE DEF h6
  <2>1. Headed(h6 \o ToLeBytes16(v[6 + 1]), 6 + 1, v)
    BY <1>9, <1>2
  <2> QED
    BY <2>1
<1> QED
  BY <1>10 DEF Header

\* Data that spells `t` from `n` on has `t` as its slice there.
LEMMA SliceOf ==
  ASSUME NEW d \in Bytes, NEW t \in Bytes, NEW n \in Nat, n + Len(t) <= Len(d),
         \A j \in 1 .. Len(t) : d[n + j] = t[j]
  PROVE  Slice(d, n, Len(t)) = t
<1> DEFINE len == Len(t)
<1>1. len \in Nat /\ Len(d) \in Nat /\ n + len <= Len(d)
  BY DEF Bytes
<1>2. \A j \in 1 .. len : d[n + j] = t[j]
  OBVIOUS
<1> HIDE DEF len
<1> DEFINE first == n + 1
<1> DEFINE last == n + len
<1>3. first \in Int /\ last \in Int /\ \A i \in first .. last : d[i] \in Int
  BY <1>1 DEF Bytes
<1>4. /\ last - first + 1 = len /\ (first <= last \/ len = 0)
      /\ \A j \in 1 .. len : first + j - 1 = n + j
  BY <1>1
<1>5. /\ Slice(d, n, len) \in Seq(Int) /\ Len(Slice(d, n, len)) = len
      /\ \A j \in 1 .. len : Slice(d, n, len)[j] = d[n + j]
  <2>1. Slice(d, n, len) = SubSeq(d, first, last)
    BY DEF Slice
  <2> DEFINE t1 == SubSeq(d, first, last)
  <2> HIDE DEF first, last
  <2>2. /\ t1 \in Seq(Int)
        /\ Len(t1) = IF first <= last THEN last - first + 1 ELSE 0
        /\ \A i \in 1 .. last - first + 1 : t1[i] = d[first + i - 1]
    BY <1>3, SubSeqProperties
  <2> HIDE DEF t1
  <2>3. Len(t1) = len /\ \A j \in 1 .. len : t1[j] = d[n + j]
    BY <1>1, <1>4, <2>2
  <2> QED
    BY <2>1, <2>2, <2>3 DEF t1
<1>6. t \in Seq(Int) /\ Len(t) = len
  BY DEF Bytes, len
<1> QED
  BY <1>2, <1>5, <1>6, SeqEqual DEF len

\* Four parts in a row, each where the lengths before it end.
LEMMA FourParts ==
  ASSUME NEW a \in Bytes, NEW b \in Bytes, NEW c \in Bytes, NEW d \in Bytes
  PROVE  LET data == a \o b \o c \o d
         IN  /\ data \in Bytes
             /\ Len(data) = Len(a) + Len(b) + Len(c) + Len(d)
             /\ \A i \in 1 .. Len(a) : data[i] = a[i]
             /\ Slice(data, Len(a), Len(b)) = b
             /\ Slice(data, Len(a) + Len(b), Len(c)) = c
             /\ Slice(data, Len(a) + Len(b) + Len(c), Len(d)) = d
<1> DEFINE d2 == a \o b
<1> DEFINE d3 == d2 \o c
<1> DEFINE d4 == d3 \o d
<1>0. Len(a) \in Nat /\ Len(b) \in Nat /\ Len(c) \in Nat /\ Len(d) \in Nat
  BY DEF Bytes
<1>1. /\ d2 \in Bytes /\ Len(d2) = Len(a) + Len(b)
      /\ \A i \in 1 .. Len(a) : d2[i] = a[i]
      /\ \A i \in 1 .. Len(b) : d2[Len(a) + i] = b[i]
  BY Behind
<1> HIDE DEF d2
<1>2. /\ d3 \in Bytes /\ Len(d3) = Len(d2) + Len(c)
      /\ \A i \in 1 .. Len(d2) : d3[i] = d2[i]
      /\ \A i \in 1 .. Len(c) : d3[Len(d2) + i] = c[i]
  BY <1>1, Behind
<1> HIDE DEF d3
<1>3. /\ d4 \in Bytes /\ Len(d4) = Len(d3) + Len(d)
      /\ \A i \in 1 .. Len(d3) : d4[i] = d3[i]
      /\ \A i \in 1 .. Len(d) : d4[Len(d3) + i] = d[i]
  BY <1>2, Behind
<1> HIDE DEF d4
<1>4. \A i \in 1 .. Len(a) : d4[i] = a[i]
  BY <1>0, <1>1, <1>2, <1>3
<1>5. \A i \in 1 .. Len(b) : d4[Len(a) + i] = b[i]
  <2> SUFFICES ASSUME NEW i \in 1 .. Len(b) PROVE d4[Len(a) + i] = b[i]
    OBVIOUS
  <2>1. Len(a) + i \in 1 .. Len(d2) /\ Len(a) + i \in 1 .. Len(d3)
    BY <1>0, <1>1, <1>2
  <2> QED
    BY <1>1, <1>2, <1>3, <2>1
<1>6. \A i \in 1 .. Len(c) : d4[Len(a) + Len(b) + i] = c[i]
  <2> SUFFICES ASSUME NEW i \in 1 .. Len(c) PROVE d4[Len(a) + Len(b) + i] = c[i]
    OBVIOUS
  <2>1. Len(a) + Len(b) + i = Len(d2) + i /\ Len(d2) + i \in 1 .. Len(d3)
    BY <1>0, <1>1, <1>2
  <2> QED
    BY <1>2, <1>3, <2>1
<1>7. \A i \in 1 .. Len(d) : d4[Len(a) + Len(b) + Len(c) + i] = d[i]
  <2>1. Len(d3) = Len(a) + Len(b) + Len(c)
    BY <1>1, <1>2
  <2> QED
    BY <1>3, <2>1
<1>8. Len(d4) = Len(a) + Len(b) + Len(c) + Len(d)
  BY <1>1, <1>2, <1>3
<1>9. Slice(d4, Len(a), Len(b)) = b
  <2>1. Len(a) + Len(b) <= Len(d4)
    BY <1>0, <1>8
  <2> QED
    BY <1>0, <1>3, <1>5, <2>1, SliceOf
<1>10. Slice(d4, Len(a) + Len(b), Len(c)) = c
  <2> DEFINE n == Len(a) + Len(b)
  <2>1. n \in Nat /\ n + Len(c) <= Len(d4)
    BY <1>0, <1>8
  <2>2. \A i \in 1 .. Len(c) : d4[n + i] = c[i]
    BY <1>6
  <2> HIDE DEF n
  <2>3. Slice(d4, n, Len(c)) = c
    BY <1>3, <2>1, <2>2, SliceOf
  <2> QED
    BY <2>3 DEF n
<1>11. Slice(d4, Len(a) + Len(b) + Len(c), Len(d)) = d
  <2> DEFINE n == Len(a) + Len(b) + Len(c)
  <2>1. n \in Nat /\ n + Len(d) <= Len(d4)
    BY <1>0, <1>8
  <2>2. \A i \in 1 .. Len(d) : d4[n + i] = d[i]
    BY <1>7
  <2> HIDE DEF n
  <2>3. Slice(d4, n, Len(d)) = d
    BY <1>3, <2>1, <2>2, SliceOf
  <2> QED
    BY <2>3 DEF n
<1> QED
  BY <1>3, <1>4, <1>8, <1>9, <1>10, <1>11 DEF d4, d3, d2

\* What the program and the runtime read of the bytes the SDK writes.
LEMMA SdkFields ==
  ASSUME NEW p \in CompressedKey, NEW s \in ByteString(P256_SIGNATURE_LEN), NEW m \in Seq(Byte)
  PROVE  LET data == SdkData(p, s, m)
         IN  /\ Len(data) = SECP256R1_MESSAGE_OFFSET + Len(m)
             /\ At(data, 0) = 1
             /\ Parse(data, PRECOMPILE_OFFSETS_START) =
                  [signature_offset |-> SECP256R1_SIGNATURE_OFFSET,
                   signature_instruction_index |-> PRECOMPILE_CURRENT_INSTRUCTION,
                   public_key_offset |-> SECP256R1_PUBKEY_OFFSET,
                   public_key_instruction_index |-> PRECOMPILE_CURRENT_INSTRUCTION,
                   message_data_offset |-> SECP256R1_MESSAGE_OFFSET,
                   message_data_size |-> Len(m),
                   message_instruction_index |-> PRECOMPILE_CURRENT_INSTRUCTION]
             /\ Slice(data, SECP256R1_PUBKEY_OFFSET, COMPRESSED_PUBKEY_LEN) = p
             /\ Slice(data, SECP256R1_SIGNATURE_OFFSET, P256_SIGNATURE_LEN) = s
             /\ Slice(data, SECP256R1_MESSAGE_OFFSET, Len(m)) = m
<1> DEFINE current == PRECOMPILE_CURRENT_INSTRUCTION
<1> DEFINE fields == <<SECP256R1_SIGNATURE_OFFSET, current, SECP256R1_PUBKEY_OFFSET, current,
                       SECP256R1_MESSAGE_OFFSET, Len(m), current>>
<1> DEFINE h == Header(fields)
<1> DEFINE data == h \o p \o s \o m
<1>1. SdkData(p, s, m) = data
  BY DEF SdkData, Header
<1>2. COMPRESSED_PUBKEY_LEN \in Nat /\ P256_SIGNATURE_LEN \in Nat /\ Len(m) \in Nat
  BY LengthsAssumption, TransactionsAssumption
<1>3. /\ SECP256R1_PUBKEY_OFFSET = 16
      /\ SECP256R1_SIGNATURE_OFFSET = 16 + COMPRESSED_PUBKEY_LEN
      /\ SECP256R1_MESSAGE_OFFSET = 16 + COMPRESSED_PUBKEY_LEN + P256_SIGNATURE_LEN
      /\ current = 65535
  BY DEF SECP256R1_PUBKEY_OFFSET, SECP256R1_SIGNATURE_OFFSET, SECP256R1_MESSAGE_OFFSET,
     PRECOMPILE_OFFSETS_START, PRECOMPILE_OFFSETS_LEN, PRECOMPILE_CURRENT_INSTRUCTION
<1>4. /\ p \in Bytes /\ Len(p) = COMPRESSED_PUBKEY_LEN
      /\ s \in Bytes /\ Len(s) = P256_SIGNATURE_LEN
      /\ m \in Bytes
  <2>1. Byte \subseteq Int
    BY DEF Byte
  <2>2. p \in Seq(Byte) /\ Len(p) = COMPRESSED_PUBKEY_LEN
    BY <1>2, ByteStringIsSeq DEF CompressedKey
  <2>3. s \in Seq(Byte) /\ Len(s) = P256_SIGNATURE_LEN
    BY <1>2, ByteStringIsSeq
  <2> QED
    BY <2>1, <2>2, <2>3, SeqMonotonic DEF Bytes
<1>5. /\ SECP256R1_SIGNATURE_OFFSET \in Nat /\ SECP256R1_PUBKEY_OFFSET \in Nat
      /\ SECP256R1_MESSAGE_OFFSET \in Nat /\ current \in Nat
  BY <1>2, <1>3
<1> HIDE DEF current
<1>6. /\ h \in Bytes /\ Len(h) = 16 /\ h[1] = 1
      /\ \A i \in 1 .. 7 : U16FromLeBytes(h, 2 * i) = fields[i]
  <2>1. fields \in [1 .. 7 -> Nat]
    BY <1>2, <1>5
  <2> HIDE DEF fields
  <2> QED
    BY <2>1, HeaderFields DEF Headed
<1> HIDE DEF h
<1>7. /\ Len(data) = Len(h) + Len(p) + Len(s) + Len(m)
      /\ \A i \in 1 .. Len(h) : data[i] = h[i]
      /\ Slice(data, Len(h), Len(p)) = p
      /\ Slice(data, Len(h) + Len(p), Len(s)) = s
      /\ Slice(data, Len(h) + Len(p) + Len(s), Len(m)) = m
  <2>1. h \in Bytes /\ p \in Bytes /\ s \in Bytes /\ m \in Bytes
    BY <1>4, <1>6
  <2>2. \A i \in 1 .. Len(h) : data[i] = h[i]
    BY <2>1, FourParts
  <2>3. Len(data) = Len(h) + Len(p) + Len(s) + Len(m)
    BY <2>1, FourParts
  <2>4. /\ Slice(data, Len(h), Len(p)) = p
        /\ Slice(data, Len(h) + Len(p), Len(s)) = s
        /\ Slice(data, Len(h) + Len(p) + Len(s), Len(m)) = m
    BY <2>1, FourParts
  <2> QED
    BY <2>2, <2>3, <2>4
<1> HIDE DEF data
<1>8. /\ Len(data) = SECP256R1_MESSAGE_OFFSET + Len(m)
      /\ Slice(data, SECP256R1_PUBKEY_OFFSET, COMPRESSED_PUBKEY_LEN) = p
      /\ Slice(data, SECP256R1_SIGNATURE_OFFSET, P256_SIGNATURE_LEN) = s
      /\ Slice(data, SECP256R1_MESSAGE_OFFSET, Len(m)) = m
  BY <1>3, <1>4, <1>6, <1>7
<1>9. \A i \in 1 .. 16 : data[i] = h[i]
  BY <1>6, <1>7
<1>10. At(data, 0) = 1
  BY <1>6, <1>9 DEF At
<1>11. \A i \in 1 .. 7 : U16FromLeBytes(data, 2 * i) = fields[i]
  <2> SUFFICES ASSUME NEW i \in 1 .. 7 PROVE U16FromLeBytes(data, 2 * i) = U16FromLeBytes(h, 2 * i)
    BY <1>6
  <2>1. 2 * i + 1 \in 1 .. 16 /\ 2 * i + 1 + 1 \in 1 .. 16
    OBVIOUS
  <2> QED
    BY <1>9, <2>1 DEF U16FromLeBytes, At
<1>12. /\ U16FromLeBytes(data, 2 + 2 * 0) = SECP256R1_SIGNATURE_OFFSET
       /\ U16FromLeBytes(data, 2 + 2 * 1) = current
       /\ U16FromLeBytes(data, 2 + 2 * 2) = SECP256R1_PUBKEY_OFFSET
       /\ U16FromLeBytes(data, 2 + 2 * 3) = current
       /\ U16FromLeBytes(data, 2 + 2 * 4) = SECP256R1_MESSAGE_OFFSET
       /\ U16FromLeBytes(data, 2 + 2 * 5) = Len(m)
       /\ U16FromLeBytes(data, 2 + 2 * 6) = current
  BY <1>11
<1> QED
  BY <1>1, <1>8, <1>10, <1>12 DEF Parse, PRECOMPILE_OFFSETS_START, current

\* The program half of a pair is accepted, whatever stands around it.
LEMMA PairIsAccepted ==
  ASSUME NEW t \in Seq(Instruction), NEW i, IsSignedPair(t, i)
  PROVE  Runs(t, i)
<1>1. PICK s \in Verifying, request \in t[i].calls :
        /\ t[i].program = ProgramId /\ t[i].calls = {request}
        /\ s.message = ToBytes(ProgramId, request)
        /\ t[i - 1].data = SdkData(s.pubkey, s.signature, s.message)
  BY DEF IsSignedPair
<1> DEFINE data == t[i - 1].data
<1> DEFINE o == Parse(data, PRECOMPILE_OFFSETS_START)
<1>2. /\ i > 1 /\ t[i - 1].program = SECP256R1_PROGRAM_ID /\ t[i - 1].accounts = 0
      /\ t[i].program # SECP256R1_PROGRAM_ID
  BY <1>1, TransactionsAssumption DEF IsSignedPair
<1>3. /\ s.pubkey \in CompressedKey /\ s.signature \in ByteString(P256_SIGNATURE_LEN)
      /\ s.message \in Seq(Byte)
  BY TransactionsAssumption
<1>4. /\ Len(data) = SECP256R1_MESSAGE_OFFSET + Len(s.message)
      /\ At(data, 0) = 1
      /\ o.signature_offset = SECP256R1_SIGNATURE_OFFSET
      /\ o.signature_instruction_index = PRECOMPILE_CURRENT_INSTRUCTION
      /\ o.public_key_offset = SECP256R1_PUBKEY_OFFSET
      /\ o.public_key_instruction_index = PRECOMPILE_CURRENT_INSTRUCTION
      /\ o.message_data_offset = SECP256R1_MESSAGE_OFFSET
      /\ o.message_data_size = Len(s.message)
      /\ o.message_instruction_index = PRECOMPILE_CURRENT_INSTRUCTION
      /\ Slice(data, SECP256R1_MESSAGE_OFFSET, Len(s.message)) = s.message
  BY <1>1, <1>3, SdkFields
<1>5. Len(s.message) \in Nat /\ SECP256R1_MESSAGE_OFFSET \in Nat
  BY <1>3, LengthsAssumption, TransactionsAssumption DEF SECP256R1_MESSAGE_OFFSET,
     SECP256R1_SIGNATURE_OFFSET, SECP256R1_PUBKEY_OFFSET, PRECOMPILE_OFFSETS_START,
     PRECOMPILE_OFFSETS_LEN
<1> HIDE DEF o, data
<1>6. LoadsPayload(t, i)
  <2>1. Len(data) >= SECP256R1_MESSAGE_OFFSET
    BY <1>4, <1>5
  <2>2. FixedLayout(o)
    BY <1>4 DEF FixedLayout
  <2>3. MessageEndsData(data, o)
    BY <1>4 DEF MessageEndsData
  <2> QED
    BY <1>2, <1>4, <2>1, <2>2, <2>3 DEF LoadsPayload, data, o
<1>7. SignedPayload(t, i).message = s.message
  BY <1>4 DEF SignedPayload, From, Slice, data
<1> QED
  BY <1>1, <1>2, <1>6, <1>7 DEF Runs, Accepts

\* And the runtime verifies the precompile half.
LEMMA PairIsVerified ==
  ASSUME NEW t \in Seq(Instruction), NEW i \in Nat, IsSignedPair(t, i + 1)
  PROVE  Runs(t, i)
<1>1. PICK s \in Verifying :
        t[(i + 1) - 1].data = SdkData(s.pubkey, s.signature, s.message)
  BY DEF IsSignedPair
<1>2. (i + 1) - 1 = i
  OBVIOUS
<1> DEFINE data == t[i].data
<1> DEFINE o == Parse(data, PRECOMPILE_OFFSETS_START)
<1>3. t[i].program = SECP256R1_PROGRAM_ID /\ data = SdkData(s.pubkey, s.signature, s.message)
  BY <1>1, <1>2 DEF IsSignedPair
<1>4. /\ s.pubkey \in CompressedKey /\ s.signature \in ByteString(P256_SIGNATURE_LEN)
      /\ s.message \in Seq(Byte)
      /\ s = [pubkey |-> s.pubkey, signature |-> s.signature, message |-> s.message]
  BY TransactionsAssumption
<1>5. /\ Len(data) = SECP256R1_MESSAGE_OFFSET + Len(s.message)
      /\ At(data, 0) = 1
      /\ o.signature_offset = SECP256R1_SIGNATURE_OFFSET
      /\ o.signature_instruction_index = PRECOMPILE_CURRENT_INSTRUCTION
      /\ o.public_key_offset = SECP256R1_PUBKEY_OFFSET
      /\ o.public_key_instruction_index = PRECOMPILE_CURRENT_INSTRUCTION
      /\ o.message_data_offset = SECP256R1_MESSAGE_OFFSET
      /\ o.message_data_size = Len(s.message)
      /\ o.message_instruction_index = PRECOMPILE_CURRENT_INSTRUCTION
      /\ Slice(data, SECP256R1_PUBKEY_OFFSET, COMPRESSED_PUBKEY_LEN) = s.pubkey
      /\ Slice(data, SECP256R1_SIGNATURE_OFFSET, P256_SIGNATURE_LEN) = s.signature
      /\ Slice(data, SECP256R1_MESSAGE_OFFSET, Len(s.message)) = s.message
  BY <1>3, <1>4, SdkFields
<1>6. Len(s.message) \in Nat /\ COMPRESSED_PUBKEY_LEN \in Nat /\ P256_SIGNATURE_LEN \in Nat
  BY <1>4, LengthsAssumption, TransactionsAssumption
<1>7. /\ SECP256R1_PUBKEY_OFFSET = 16
      /\ SECP256R1_SIGNATURE_OFFSET = SECP256R1_PUBKEY_OFFSET + COMPRESSED_PUBKEY_LEN
      /\ SECP256R1_MESSAGE_OFFSET = SECP256R1_SIGNATURE_OFFSET + P256_SIGNATURE_LEN
  BY DEF SECP256R1_MESSAGE_OFFSET, SECP256R1_SIGNATURE_OFFSET, SECP256R1_PUBKEY_OFFSET,
     PRECOMPILE_OFFSETS_START, PRECOMPILE_OFFSETS_LEN
<1> HIDE DEF o, data
<1>8. SignatureVerifies(t, i, o)
  <2>1. /\ SECP256R1_SIGNATURE_OFFSET + P256_SIGNATURE_LEN <= Len(data)
        /\ SECP256R1_PUBKEY_OFFSET + COMPRESSED_PUBKEY_LEN <= Len(data)
        /\ SECP256R1_MESSAGE_OFFSET + Len(s.message) <= Len(data)
    BY <1>5, <1>6, <1>7
  <2>2. /\ HasSlice(t, i, o.signature_instruction_index, o.signature_offset, P256_SIGNATURE_LEN)
        /\ HasSlice(t, i, o.public_key_instruction_index, o.public_key_offset,
                    COMPRESSED_PUBKEY_LEN)
        /\ HasSlice(t, i, o.message_instruction_index, o.message_data_offset,
                    o.message_data_size)
    BY <1>5, <2>1 DEF HasSlice, data
  <2>3. /\ GetDataSlice(t, i, o.public_key_instruction_index, o.public_key_offset,
                        COMPRESSED_PUBKEY_LEN) = s.pubkey
        /\ GetDataSlice(t, i, o.signature_instruction_index, o.signature_offset,
                        P256_SIGNATURE_LEN) = s.signature
        /\ GetDataSlice(t, i, o.message_instruction_index, o.message_data_offset,
                        o.message_data_size) = s.message
    BY <1>5 DEF GetDataSlice, data
  <2> QED
    BY <1>4, <2>2, <2>3 DEF SignatureVerifies
<1>9. Verified(t, i)
  <2>1. \A j \in 0 .. At(data, 0) - 1 : PRECOMPILE_OFFSETS_START + j * PRECOMPILE_OFFSETS_LEN
                                          = PRECOMPILE_OFFSETS_START
    BY <1>5 DEF PRECOMPILE_OFFSETS_START, PRECOMPILE_OFFSETS_LEN
  <2>2. \A j \in 0 .. At(data, 0) - 1 :
          SignatureVerifies(t, i,
            Parse(data, PRECOMPILE_OFFSETS_START + j * PRECOMPILE_OFFSETS_LEN))
    BY <1>8, <2>1 DEF o
  <2>3. /\ Len(data) >= PRECOMPILE_OFFSETS_START
        /\ PRECOMPILE_OFFSETS_START + At(data, 0) * PRECOMPILE_OFFSETS_LEN <= Len(data)
    <3> DEFINE size == Len(s.message)
    <3>1. size \in Nat /\ Len(data) = SECP256R1_MESSAGE_OFFSET + size
      BY <1>5, <1>6
    <3> HIDE DEF size
    <3>2. Len(data) >= 16
      BY <1>6, <1>7, <3>1
    <3>3. At(data, 0) * PRECOMPILE_OFFSETS_LEN = 14 /\ PRECOMPILE_OFFSETS_START = 2
      BY <1>5 DEF PRECOMPILE_OFFSETS_START, PRECOMPILE_OFFSETS_LEN
    <3>4. Len(data) \in Nat
      BY <1>6, <1>7, <3>1
    <3> HIDE DEF data
    <3> QED
      BY <3>2, <3>3, <3>4
  <2> QED
    BY <2>2, <2>3 DEF Verified, data
<1> QED
  BY <1>3, <1>9 DEF Runs

\* A pair built as the SDK and the tests build it is never refused for its
\* layout, wherever in a transaction it stands, for any request and any length
\* of keys and signatures (precompile.rs, requests.rs).
THEOREM SignedPairsPass == Spec => SignedPairPasses
<1>1. IInv /\ [Next]_vars =>
        [at <= Len(tx) /\ (IsSignedPair(tx, at) \/ IsSignedPair(tx, at + 1)) => at' = at + 1]_vars
  <2> SUFFICES ASSUME IInv, Next, at <= Len(tx),
                      IsSignedPair(tx, at) \/ IsSignedPair(tx, at + 1)
               PROVE  at' = at + 1
    OBVIOUS
  <2>1. tx \in Seq(Instruction) /\ Len(tx) \in Nat /\ at \in 1 .. Len(tx) + 1 /\ at \in Nat
    BY LenProperties DEF IInv, TypeOK
  <2>2. Runs(tx, at)
    BY <2>1, PairIsAccepted, PairIsVerified
  <2>3. ~Submit /\ ~Commit /\ ~Fail
    BY <2>1, <2>2, EmptySeq DEF Submit, Commit, Fail
  <2> QED
    BY <2>3 DEF Next, Run
<1> QED
  BY <1>1, InitInvariant, StepInvariant, PTL DEF Spec, SignedPairPasses
=============================================================================
