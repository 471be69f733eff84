----------------------------- MODULE MCBoundaries -----------------------------
(* Model-checking values for Boundaries.                                       *)
EXTENDS Boundaries, Naturals, Sequences, TLC

CONSTANTS b1, b2, p1, p2, s1, s2

\* Targets of the adapters; the transcription may be configured without TLS.
Llm == <<"https", "llm">>
Stt == <<"https", "stt">>
Plain == <<"http", "stt">>
Tts == <<"https", "tts">>
NoTarget == <<"no", "url">>
Malformed == <<"malformed", "url">>
Media == <<"https", "lookaside.fbsbx.com">>
Telegram == <<"https", "api.telegram.org">>

Disabled == [provider |-> "disabled", url |-> NoTarget, complete |-> FALSE]
On(u) == [provider |-> "known", url |-> u, complete |-> TRUE]

Full == {<<"bare", "llm">>, <<"https", "stt">>, <<"bare", "tts">>, Telegram,
         <<"bare", "graph.facebook.com">>}

TheSettings ==
  [process : {"http", "run-once", "operator"}, worker : BOOLEAN, postgres : BOOLEAN,
   telegram : BOOLEAN, whatsapp : BOOLEAN, phone : BOOLEAN,
   explicit : {{}, Full, Full \cup {Media}, Full \cup {<<"bad", "entry">>},
               Full \ {<<"bare", "tts">>}, {Telegram}},
   adapters :
     [llm : {Disabled, On(Llm)}, transcription : {Disabled, On(Stt), On(Plain)},
      tts : {Disabled, On(Tts)}]
     \cup
     [llm : {[On(Llm) EXCEPT !.provider = "unknown"], [On(Llm) EXCEPT !.complete = FALSE],
             [On(Llm) EXCEPT !.url = NoTarget], On(Malformed),
             [Disabled EXCEPT !.url = Malformed], [Disabled EXCEPT !.url = Llm]},
      transcription : {On(Stt)}, tts : {Disabled}]]

TheTargets ==
  {Media, <<"https", "graph.facebook.com">>, <<"http", "lookaside.fbsbx.com">>,
   <<"https", "elsewhere">>, Malformed}

-----------------------------------------------------------------------------
\* Metadata of a trace event: one, two or three entries, the first of any class
\* with any kind of value.
V == INSTANCE TracePrivacy
       WITH MaxItems <- 3, MaxDepth <- 2, TooLong <- {}, RawMappings <- {}, RawEntries <- {},
            stage <- life

K(class, name) == V!Key(class, <<name>>)
Free == V!Leaf("free", 0)
Bytes == V!Leaf("bytes", 0)

Simple == {V!Number(7), V!Word, Free, V!Leaf("url", 0), Bytes, V!Redacted}
\* The fourth and the fifth are what bytes are reduced to, alone and with more.
Nested == {V!Mapping(<<>>), V!Mapping(<<V!Entry(K("sensitive", "b"), Free)>>),
           V!Mapping(<<V!Entry(K("container", "c"),
                         V!Mapping(<<V!Entry(K("container", "d"),
                           V!Mapping(<<V!Entry(K("category", "e"), Free)>>))>>))>>),
           V!binary_metadata,
           V!Mapping(<<V!Entry(K("sensitive", "b"), Bytes)>> \o V!binary_metadata.items),
           V!List(<<V!Item(Bytes), V!Item(Free)>>),
           V!List(<<V!Item(V!List(<<V!Item(V!Word), V!Item(Free)>>))>>),
           V!List([i \in 1 .. 5 |-> V!Item(Free)])}

Entries == {V!Entry(K(class, "a"), value) : class \in V!Classes, value \in Simple \cup Nested}
\* Beside it, an entry of another name, or the two keys redaction adds itself.
Others == {V!Entry(K(class, "b"), value) :
             class \in {"sensitive", "metric", "container"},
             value \in {Free, Bytes}}
            \cup {V!Entry(V!Suffixed(K("sensitive", "a"), suffix), value) :
                    suffix \in {"length", "sha256"}, value \in {V!Number(1), Free}}
Third == V!Entry(K("sensitive", "c"), Free)

TheMetadata == {<<>>} \cup {<<e>> : e \in Entries}
                 \cup {<<e, o>> : e \in Entries, o \in Others}
                 \cup {<<o, e, Third>> : e \in Entries, o \in Others}
TheEntries == {V!Entry(K(class, "z"), value) :
                 class \in {"sensitive", "unknown", "container"}, value \in {Free, Bytes}}
\* A suffix may make a name too long.
TheLongNames == {<<"b", "sha256">>, <<"b", "count">>}

-----------------------------------------------------------------------------

ASSUME BoundariesAssumption ==
  /\ L!TokenAssumption /\ A!BoundsAssumption /\ E!SettingsAssumption
  /\ T!IdsAssumption /\ T!DaysAssumption /\ T!CommandsAssumption
  /\ P!LimitAssumption /\ P!RawAssumption

\* Commands of a kind are alike.
CommandSymmetry == Permutations({p1, p2}) \cup Permutations({s1, s2})
=============================================================================
