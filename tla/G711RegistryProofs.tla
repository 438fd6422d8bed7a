------------------------- MODULE G711RegistryProofs -------------------------
(***************************************************************************)
(* What the registry promises its clients, for any number of registrations *)
(* and of objects: a codec id names a law, a WAVEFORMATEX tag one codec.   *)
(* Both rest on the entries that the two loops can add (Entries) and on a  *)
(* lookup returning an entry that matches, whichever comes first.          *)
(***************************************************************************)
EXTENDS G711Registry, TLAPS, FiniteSetTheorems, SequenceTheorems,
        WellFoundedInduction

(* What the two loops of register_codecs add.                              *)
MulawEntries ==
    {CodecInfo(MULAW_ALIASES, "mulaw", WAVE_FORMAT_MULAW, i) : i \in 1..3}
AlawEntries ==
    {CodecInfo(ALAW_ALIASES, "alaw", WAVE_FORMAT_ALAW, i) : i \in 1..3}
Entries == MulawEntries \cup AlawEntries

(* An object opened by a tag runs the tag's law, under its canonical id.   *)
TagTellsCodec ==
    \A o \in objects :
       /\ o.via = WAVE_FORMAT_MULAW =>
             o.law = "mulaw" /\ o.codec_id = MULAW_ALIASES[1]
       /\ o.via = WAVE_FORMAT_ALAW =>
             o.law = "alaw" /\ o.codec_id = ALAW_ALIASES[1]

(* The strengthening of both properties: nothing but those entries.        *)
RegistryInv ==
    /\ position # NoValue => position \in [law : Laws, alias : 1..3]
    /\ codecs \in Seq(Entries)
    /\ CodecIdTellsLaw
    /\ TagTellsCodec

-----------------------------------------------------------------------------
(* The name of an entry tells its law, and the law's first name is the one *)
(* that claims the tag.                                                    *)
LEMMA EntryTells ==
    ASSUME NEW e \in Entries
    PROVE  /\ e.law \in Laws
           /\ e.law = Family(e.id)
           /\ e.tag = WAVE_FORMAT_MULAW =>
                 e.law = "mulaw" /\ e.id = MULAW_ALIASES[1]
           /\ e.tag = WAVE_FORMAT_ALAW =>
                 e.law = "alaw" /\ e.id = ALAW_ALIASES[1]
  <1>0. NoValue # WAVE_FORMAT_MULAW /\ NoValue # WAVE_FORMAT_ALAW
    BY NoneIsNoTag DEF Tags
  <1>1. CASE e \in MulawEntries
    <2>1. PICK i \in 1..3 :
             e = CodecInfo(MULAW_ALIASES, "mulaw", WAVE_FORMAT_MULAW, i)
      BY <1>1 DEF MulawEntries
    <2>2. /\ e.id = MULAW_ALIASES[i] /\ e.law = "mulaw"
          /\ e.tag = IF i = 1 THEN WAVE_FORMAT_MULAW ELSE NoValue
      BY <2>1 DEF CodecInfo
    <2>3. Family(e.id) = "mulaw"
      BY <2>2 DEF Family
    <2>. QED
      BY <1>0, <2>2, <2>3 DEF Laws, WAVE_FORMAT_MULAW, WAVE_FORMAT_ALAW
  <1>2. CASE e \in AlawEntries
    <2>1. PICK i \in 1..3 :
             e = CodecInfo(ALAW_ALIASES, "alaw", WAVE_FORMAT_ALAW, i)
      BY <1>2 DEF AlawEntries
    <2>2. /\ e.id = ALAW_ALIASES[i] /\ e.law = "alaw"
          /\ e.tag = IF i = 1 THEN WAVE_FORMAT_ALAW ELSE NoValue
      BY <2>1 DEF CodecInfo
    <2>3. \A j \in 1..3 : MULAW_ALIASES[j] # ALAW_ALIASES[i]
      BY DEF MULAW_ALIASES, ALAW_ALIASES
    <2>4. Family(e.id) = "alaw"
      BY <2>2, <2>3 DEF Family
    <2>. QED
      BY <1>0, <2>2, <2>4 DEF Laws, WAVE_FORMAT_MULAW, WAVE_FORMAT_ALAW
  <1>. QED  BY <1>1, <1>2 DEF Entries

(* A nonempty set of positions has a first one.                            *)
LEMMA HasFirst ==
    ASSUME NEW T \in SUBSET Nat, T # {}
    PROVE  \E n \in T : \A k \in T : n <= k
  <1>1. PICK n \in T : \A y \in T : ~ (<<y, n>> \in OpToRel(<, Nat))
    BY NatLessThanWellFounded, WFMin
  <1>2. ASSUME NEW y \in T PROVE n <= y
    <2>1. ~ (<<y, n>> \in OpToRel(<, Nat))
      BY <1>1
    <2>2. ~ (y < n)
      BY <2>1 DEF OpToRel
    <2>. QED  BY <2>2
  <1>. QED  BY <1>2

(* A lookup that finds something returns one of the entries it found.      *)
LEMMA FirstFound ==
    ASSUME codecs \in Seq(Entries),
           NEW T \in SUBSET (1..Len(codecs)), T # {}
    PROVE  \E n \in T : FirstOf(T) = codecs[n] /\ codecs[n] \in Entries
  <1>1. T \in SUBSET Nat
    BY LenProperties
  <1>2. \E n \in T : \A k \in T : n <= k
    BY <1>1, HasFirst
  <1>3. (CHOOSE n \in T : \A k \in T : n <= k) \in T
    BY <1>2
  <1>. QED  BY <1>3, LenProperties DEF FirstOf

(* The entry an id resolves to carries the id and runs its law.            *)
LEMMA IdResolves ==
    ASSUME codecs \in Seq(Entries), NEW id, Implementations(id) # {}
    PROVE  /\ FirstOf(Implementations(id)).law = Family(id)
           /\ FirstOf(Implementations(id)).id = id
  <1>1. Implementations(id) \in SUBSET (1..Len(codecs))
    BY DEF Implementations
  <1>2. PICK n \in Implementations(id) :
           FirstOf(Implementations(id)) = codecs[n] /\ codecs[n] \in Entries
    BY <1>1, FirstFound
  <1>3. codecs[n].id = id
    BY DEF Implementations
  <1>. QED  BY <1>2, <1>3, EntryTells

(* The id a tag resolves to is the canonical one of the tag's law.         *)
LEMMA TagResolves ==
    ASSUME codecs \in Seq(Entries), NEW tag \in Tags, ClaimsOf(tag) # {}
    PROVE  FirstOf(ClaimsOf(tag)).id = IF tag = WAVE_FORMAT_MULAW
                                       THEN MULAW_ALIASES[1]
                                       ELSE ALAW_ALIASES[1]
  <1>1. ClaimsOf(tag) \in SUBSET (1..Len(codecs))
    BY DEF ClaimsOf
  <1>2. PICK n \in ClaimsOf(tag) :
           FirstOf(ClaimsOf(tag)) = codecs[n] /\ codecs[n] \in Entries
    BY <1>1, FirstFound
  <1>3. codecs[n].tag = tag
    BY DEF ClaimsOf
  <1>. QED  BY <1>2, <1>3, EntryTells DEF Tags

(* However often the codecs were registered, one id claims a tag.          *)
LEMMA OneClaimant ==
    ASSUME codecs \in Seq(Entries), NEW tag \in Tags
    PROVE  Cardinality({codecs[n].id : n \in ClaimsOf(tag)}) <= 1
  <1>. DEFINE ids == {codecs[n].id : n \in ClaimsOf(tag)}
              id  == IF tag = WAVE_FORMAT_MULAW THEN MULAW_ALIASES[1]
                                                ELSE ALAW_ALIASES[1]
  <1>1. ASSUME NEW n \in ClaimsOf(tag) PROVE codecs[n].id = id
    <2>1. n \in 1..Len(codecs) /\ codecs[n].tag = tag
      BY DEF ClaimsOf
    <2>2. codecs[n] \in Entries
      BY <2>1, LenProperties
    <2>. QED  BY <2>1, <2>2, EntryTells DEF Tags
  <1>2. ids \in SUBSET {id}
    BY <1>1
  <1>3. IsFiniteSet({id}) /\ Cardinality({id}) = 1
    BY FS_Singleton
  <1>4. IsFiniteSet(ids) /\ Cardinality(ids) <= Cardinality({id})
    <2>. HIDE DEF ids, id
    <2>. QED  BY <1>2, <1>3, FS_Subset
  <1>. QED  BY <1>3, <1>4

-----------------------------------------------------------------------------
(* A factory or a lookup adds at most the object it was asked for.         *)
LEMMA MakeAdds ==
    ASSUME NEW kind, NEW law, NEW params, NEW via,
           Make(kind, law, params, via)
    PROVE  objects' \subseteq objects \cup
              {[kind |-> kind, law |-> law, via |-> via,
                codec_id |-> params.codec_id]}
  BY DEF Make

LEMMA LookupAdds ==
    ASSUME codecs \in Seq(Entries), NEW kind, NEW params, NEW via,
           Lookup(kind, params, via)
    PROVE  objects' \subseteq objects \cup
              {[kind |-> kind, law |-> Family(params.codec_id), via |-> via,
                codec_id |-> params.codec_id]}
  <1>1. CASE Implementations(params.codec_id) = {}
    BY <1>1 DEF Lookup
  <1>2. CASE Implementations(params.codec_id) # {}
    <2>1. Make(kind, FirstOf(Implementations(params.codec_id)).law,
               params, via)
      BY <1>2 DEF Lookup
    <2>2. FirstOf(Implementations(params.codec_id)).law
            = Family(params.codec_id)
      BY <1>2, IdResolves
    <2>. QED  BY <2>1, <2>2, MakeAdds
  <1>. QED  BY <1>1, <1>2

(* Registration appends an entry of Entries and touches no object.         *)
LEMMA RegistryInvInit == Init => RegistryInv
  BY DEF Init, RegistryInv, CodecIdTellsLaw, TagTellsCodec

LEMMA RegistryInvStep == RegistryInv /\ [Next]_vars => RegistryInv'
  <1>. SUFFICES ASSUME RegistryInv, [Next]_vars PROVE RegistryInv'
    OBVIOUS
  <1>. USE DEF RegistryInv
  <1>1. CASE Register
    <2>1. position' \in [law : Laws, alias : 1..3]
      BY <1>1 DEF Register, Laws
    <2>. QED  BY <1>1, <2>1 DEF Register, CodecIdTellsLaw, TagTellsCodec
  <1>2. CASE RegisterMulaw
    <2>1. /\ position \in [law : Laws, alias : 1..3]
          /\ UNCHANGED objects
          /\ codecs' = Append(codecs, CodecInfo(MULAW_ALIASES, "mulaw",
                                         WAVE_FORMAT_MULAW, position.alias))
          /\ position' = IF position.alias < Len(MULAW_ALIASES)
                         THEN [position EXCEPT !.alias = @ + 1]
                         ELSE [law |-> "alaw", alias |-> 1]
      BY <1>2 DEF RegisterMulaw
    <2>2. position' \in [law : Laws, alias : 1..3]
      BY <2>1 DEF MULAW_ALIASES, Laws
    <2>3. CodecInfo(MULAW_ALIASES, "mulaw", WAVE_FORMAT_MULAW, position.alias)
            \in Entries
      BY <2>1 DEF Entries, MulawEntries
    <2>4. codecs' \in Seq(Entries)
      BY <2>1, <2>3, AppendProperties
    <2>. QED  BY <2>1, <2>2, <2>4 DEF CodecIdTellsLaw, TagTellsCodec
  <1>3. CASE RegisterAlaw
    <2>1. /\ position \in [law : Laws, alias : 1..3]
          /\ UNCHANGED objects
          /\ codecs' = Append(codecs, CodecInfo(ALAW_ALIASES, "alaw",
                                         WAVE_FORMAT_ALAW, position.alias))
          /\ position' = IF position.alias < Len(ALAW_ALIASES)
                         THEN [position EXCEPT !.alias = @ + 1] ELSE NoValue
      BY <1>3 DEF RegisterAlaw
    <2>2. position' # NoValue => position' \in [law : Laws, alias : 1..3]
      BY <2>1 DEF ALAW_ALIASES, Laws
    <2>3. CodecInfo(ALAW_ALIASES, "alaw", WAVE_FORMAT_ALAW, position.alias)
            \in Entries
      BY <2>1 DEF Entries, AlawEntries
    <2>4. codecs' \in Seq(Entries)
      BY <2>1, <2>3, AppendProperties
    <2>. QED  BY <2>1, <2>2, <2>4 DEF CodecIdTellsLaw, TagTellsCodec
  <1>4. ASSUME NEW kind \in Kinds, NEW params \in Parameters,
               OpenById(kind, params)
        PROVE  RegistryInv'
    <2>1. UNCHANGED <<codecs, position>> /\ Lookup(kind, params, "id")
      BY <1>4 DEF OpenById
    <2>2. objects' \subseteq objects \cup
             {[kind |-> kind, law |-> Family(params.codec_id), via |-> "id",
               codec_id |-> params.codec_id]}
      BY <2>1, LookupAdds
    <2>3. CodecIdTellsLaw'
      BY <2>2 DEF CodecIdTellsLaw, Family
    <2>4. TagTellsCodec'
      BY <2>2 DEF TagTellsCodec, WAVE_FORMAT_MULAW, WAVE_FORMAT_ALAW
    <2>. QED  BY <2>1, <2>3, <2>4
  <1>5. ASSUME NEW kind \in Kinds, NEW tag \in Tags, NEW params \in Parameters,
               OpenByTag(kind, tag, params.channels, params.sample_format)
        PROVE  RegistryInv'
    <2>1. UNCHANGED <<codecs, position>>
      BY <1>5 DEF OpenByTag
    <2>2. CASE ClaimsOf(tag) = {}
      BY <1>5, <2>1, <2>2 DEF OpenByTag, CodecIdTellsLaw, TagTellsCodec
    <2>3. CASE ClaimsOf(tag) # {}
      <3>. DEFINE id == FirstOf(ClaimsOf(tag)).id
      <3>1. Lookup(kind, [codec_id |-> id, channels |-> params.channels,
                          sample_format |-> params.sample_format], tag)
        BY <1>5, <2>3 DEF OpenByTag
      <3>2. objects' \subseteq objects \cup
               {[kind |-> kind, law |-> Family(id), via |-> tag,
                 codec_id |-> id]}
        <4>. HIDE DEF id
        <4>. QED  BY <3>1, LookupAdds
      <3>3. id = IF tag = WAVE_FORMAT_MULAW THEN MULAW_ALIASES[1]
                                            ELSE ALAW_ALIASES[1]
        BY <2>3, TagResolves
      <3>4. /\ Family(MULAW_ALIASES[1]) = "mulaw"
            /\ Family(ALAW_ALIASES[1]) = "alaw"
        BY DEF Family, MULAW_ALIASES, ALAW_ALIASES
      <3>. HIDE DEF id
      <3>5. CodecIdTellsLaw'
        BY <3>2 DEF CodecIdTellsLaw, Family
      <3>6. TagTellsCodec'
        BY <3>2, <3>3, <3>4
        DEF TagTellsCodec, Tags, WAVE_FORMAT_MULAW, WAVE_FORMAT_ALAW
      <3>. QED  BY <2>1, <3>5, <3>6
    <2>. QED  BY <2>2, <2>3
  <1>6. ASSUME NEW kind \in Kinds, NEW law \in Laws, NEW params \in Parameters,
               OpenDirect(kind, law, params)
        PROVE  RegistryInv'
    <2>1. UNCHANGED <<codecs, position>> /\ Make(kind, law, params, "factory")
      BY <1>6 DEF OpenDirect
    <2>2. objects' \subseteq objects \cup
             {[kind |-> kind, law |-> law, via |-> "factory",
               codec_id |-> params.codec_id]}
      BY <2>1, MakeAdds
    <2>3. CodecIdTellsLaw'
      BY <2>2 DEF CodecIdTellsLaw, Family
    <2>4. TagTellsCodec'
      BY <2>2 DEF TagTellsCodec, WAVE_FORMAT_MULAW, WAVE_FORMAT_ALAW
    <2>. QED  BY <2>1, <2>3, <2>4
  <1>7. CASE UNCHANGED vars
    BY <1>7 DEF vars, CodecIdTellsLaw, TagTellsCodec
  <1>. QED  BY <1>1, <1>2, <1>3, <1>4, <1>5, <1>6, <1>7 DEF Next

LEMMA RegistryInvariant == Spec => []RegistryInv
  BY RegistryInvInit, RegistryInvStep, PTL DEF Spec

-----------------------------------------------------------------------------
(* After any number of registrations, a codec opened through the registry  *)
(* runs the law its codec id names: first_decoder and first_encoder never  *)
(* mix the two families up, whichever of the duplicate entries they take.  *)
THEOREM IdsTellLaw == Spec => []CodecIdTellsLaw
  <1>1. RegistryInv => CodecIdTellsLaw
    BY DEF RegistryInv
  <1>. QED  BY <1>1, RegistryInvariant, PTL

(* A WAVEFORMATEX tag opens its own law under the canonical id, and never  *)
(* has a second id to choose from, after any number of registrations.      *)
THEOREM TagsNameOneCodec == Spec => []TagsAreCanonical
  <1>1. RegistryInv => TagsAreCanonical
    BY OneClaimant DEF RegistryInv, TagsAreCanonical, TagTellsCodec
  <1>. QED  BY <1>1, RegistryInvariant, PTL
=============================================================================
