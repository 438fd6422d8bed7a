---------------------------- MODULE G711Registry ----------------------------
(***************************************************************************)
(* Registration (src/src/lib.rs) and what it is for: register_codecs adds  *)
(* one entry per alias of each law to the registry of oxideav-core, and a  *)
(* client opens decoders and encoders by codec id, by WAVEFORMATEX tag, or *)
(* past the registry through the factories of mulaw.rs and alaw.rs, which  *)
(* take any codec id and report it as theirs.                              *)
(*                                                                         *)
(* The registry is external: register appends an entry, a lookup takes the *)
(* first entry that matches.  A registration in progress borrows it        *)
(* exclusively, so clients act between registrations only.                 *)
(***************************************************************************)
EXTENDS G711Tables, FiniteSets

CONSTANTS NoValue,           \* Option::None
          MaxRegistrations,  \* bound on calls of register
          MaxObjects         \* bound on the objects a client opens

ASSUME BoundsAssumption ==
    /\ NoValue \notin Nat
    /\ MaxRegistrations \in Nat
    /\ MaxObjects \in Nat

VARIABLES codecs,    \* the registered entries, in order: [id, law, tag]
          position,  \* the entry register_codecs adds next, NoValue outside it
          calls,     \* calls of register so far
          objects,   \* what the client holds: [kind, law, codec_id, via]
          reply      \* what the last lookup or factory returned

vars == <<codecs, position, calls, objects, reply>>

-----------------------------------------------------------------------------
MULAW_ALIASES == <<"pcm_mulaw", "ulaw", "g711u">>
ALAW_ALIASES  == <<"pcm_alaw", "alaw", "g711a">>

ForeignIds == {"", "deadbeef"}

CODEC_IDS == {MULAW_ALIASES[i] : i \in 1..3}
               \cup {ALAW_ALIASES[i] : i \in 1..3} \cup ForeignIds

WAVE_FORMAT_MULAW == "0x0007"
WAVE_FORMAT_ALAW  == "0x0006"

Tags == {WAVE_FORMAT_MULAW, WAVE_FORMAT_ALAW}

ASSUME NoneIsNoTag == NoValue \notin Tags

(* Mutant: every alias claims the tag.                                     *)
CodecInfoTagged(aliases, law, tag, i) ==
    [id |-> aliases[i], law |-> law, tag |-> tag]

(* The entry of an alias: its law's factories, and the tag for the first.  *)
CodecInfo(aliases, law, tag, i) ==
    [id |-> aliases[i], law |-> law, tag |-> IF i = 1 THEN tag ELSE NoValue]

(* The external registry's lookups.                                        *)
Implementations(id) == {n \in 1..Len(codecs) : codecs[n].id = id}

ClaimsOf(tag) == {n \in 1..Len(codecs) : codecs[n].tag = tag}

FirstOf(entries) == codecs[CHOOSE n \in entries : \A k \in entries : n <= k]

-----------------------------------------------------------------------------
Init ==
    /\ codecs = <<>>
    /\ position = NoValue /\ calls = 0
    /\ objects = {}
    /\ reply = "idle"

(* register, and register_codecs up to its first loop.                     *)
Register ==
    /\ position = NoValue /\ calls < MaxRegistrations
    /\ calls' = calls + 1
    /\ position' = [law |-> "mulaw", alias |-> 1]
    /\ UNCHANGED <<codecs, objects, reply>>

(* One round of the mu-law loop.                                           *)
RegisterMulaw ==
    /\ position # NoValue /\ position.law = "mulaw"
    /\ codecs' = Append(codecs,
         CodecInfo(MULAW_ALIASES, "mulaw", WAVE_FORMAT_MULAW, position.alias))
    /\ position' = IF position.alias < Len(MULAW_ALIASES)
                   THEN [position EXCEPT !.alias = @ + 1]
                   ELSE [law |-> "alaw", alias |-> 1]
    /\ UNCHANGED <<calls, objects, reply>>

(* Mutant: the A-law entries are given the factories of the loop above.    *)
RegisterAlawWithMulaw ==
    /\ position # NoValue /\ position.law = "alaw"
    /\ codecs' = Append(codecs,
         CodecInfo(ALAW_ALIASES, "mulaw", WAVE_FORMAT_ALAW, position.alias))
    /\ position' = IF position.alias < Len(ALAW_ALIASES)
                   THEN [position EXCEPT !.alias = @ + 1] ELSE NoValue
    /\ UNCHANGED <<calls, objects, reply>>

(* Mutant: the loop ends before the last alias.                            *)
RegisterAlawShort ==
    /\ position # NoValue /\ position.law = "alaw"
    /\ codecs' = Append(codecs,
         CodecInfo(ALAW_ALIASES, "alaw", WAVE_FORMAT_ALAW, position.alias))
    /\ position' = IF position.alias < Len(ALAW_ALIASES) - 1
                   THEN [position EXCEPT !.alias = @ + 1] ELSE NoValue
    /\ UNCHANGED <<calls, objects, reply>>

(* One round of the A-law loop; register_codecs returns after the last.    *)
RegisterAlaw ==
    /\ position # NoValue /\ position.law = "alaw"
    /\ codecs' = Append(codecs,
         CodecInfo(ALAW_ALIASES, "alaw", WAVE_FORMAT_ALAW, position.alias))
    /\ position' = IF position.alias < Len(ALAW_ALIASES)
                   THEN [position EXCEPT !.alias = @ + 1] ELSE NoValue
    /\ UNCHANGED <<calls, objects, reply>>

-----------------------------------------------------------------------------
(* make_decoder and make_encoder: no channels, or for an encoder samples   *)
(* that are not S16, are refused; the codec id is copied, not looked at.   *)
Refused(kind, params) ==
    \/ params.channels = 0
    \/ kind = "encoder" /\ params.sample_format \notin {NoValue, "S16"}

Make(kind, law, params, via) ==
    IF Refused(kind, params)
    THEN /\ reply' = "unsupported"
         /\ UNCHANGED objects
    ELSE /\ reply' = "created"
         /\ objects' = objects \cup
              {[kind |-> kind, law |-> law, via |-> via,
                codec_id |-> params.codec_id]}

ClientMayOpen == position = NoValue /\ Cardinality(objects) < MaxObjects

(* first_decoder and first_encoder: the law of the id's first entry.       *)
Lookup(kind, params, via) ==
    LET found == Implementations(params.codec_id)
    IN  IF found = {}
        THEN /\ reply' = "codec_not_found"
             /\ UNCHANGED objects
        ELSE Make(kind, FirstOf(found).law, params, via)

OpenById(kind, params) ==
    /\ ClientMayOpen
    /\ Lookup(kind, params, "id")
    /\ UNCHANGED <<codecs, position, calls>>

(* A container's tag is resolved to a codec id, which is then looked up.   *)
OpenByTag(kind, tag, channels, format) ==
    /\ ClientMayOpen
    /\ IF ClaimsOf(tag) = {}
       THEN /\ reply' = "codec_not_found"
            /\ UNCHANGED objects
       ELSE Lookup(kind, [codec_id |-> FirstOf(ClaimsOf(tag)).id,
                          channels |-> channels, sample_format |-> format],
                   tag)
    /\ UNCHANGED <<codecs, position, calls>>

OpenDirect(kind, law, params) ==
    /\ ClientMayOpen
    /\ Make(kind, law, params, "factory")
    /\ UNCHANGED <<codecs, position, calls>>

Kinds == {"decoder", "encoder"}

Parameters == [codec_id : CODEC_IDS, channels : {NoValue, 0, 1},
               sample_format : {NoValue, "S16", "F32"}]

Next ==
    \/ Register \/ RegisterMulaw \/ RegisterAlaw
    \/ \E kind \in Kinds, params \in Parameters :
          OpenById(kind, params)
    \/ \E kind \in Kinds, tag \in Tags, params \in Parameters :
          OpenByTag(kind, tag, params.channels, params.sample_format)
    \/ \E kind \in Kinds, law \in Laws, params \in Parameters :
          OpenDirect(kind, law, params)

(* register_codecs is one synchronous call: once entered, its loops run.   *)
Fairness == WF_vars(RegisterMulaw \/ RegisterAlaw)

Spec == Init /\ [][Next]_vars /\ Fairness

-----------------------------------------------------------------------------
Family(id) == IF \E i \in 1..3 : MULAW_ALIASES[i] = id THEN "mulaw" ELSE "alaw"

(* Whatever was opened through the registry runs the law its codec id      *)
(* names, under the alias the client asked for, also after the codecs were *)
(* registered twice; only the direct factories make a mu-law object that   *)
(* calls itself A-law.                                                     *)
CodecIdTellsLaw ==
    \A o \in objects : o.via # "factory" => o.law = Family(o.codec_id)

(* A stream opened by its WAVEFORMATEX tag gets the canonical id of the    *)
(* tag's law and of no other entry, however often the codecs were          *)
(* registered: no alias competes for the tag.                              *)
TagsAreCanonical ==
    /\ \A o \in objects :
          /\ o.via = WAVE_FORMAT_MULAW =>
                o.law = "mulaw" /\ o.codec_id = MULAW_ALIASES[1]
          /\ o.via = WAVE_FORMAT_ALAW =>
                o.law = "alaw" /\ o.codec_id = ALAW_ALIASES[1]
    /\ \A tag \in Tags :
          Cardinality({codecs[n].id : n \in ClaimsOf(tag)}) <= 1

(* A call of register leads to a registry that resolves all six ids and    *)
(* both tags.                                                              *)
RegistrationCompletes ==
    calls > 0 ~> /\ \A id \in CODEC_IDS \ ForeignIds : Implementations(id) # {}
                 /\ \A tag \in Tags : ClaimsOf(tag) # {}
=============================================================================
