---------------------------- MODULE TracePrivacy ----------------------------
(***************************************************************************)
(* Redaction of trace metadata (domain/common/privacy.py) and the way of   *)
(* one trace event through it: redacted when built, possibly changed in    *)
(* place, checked for completeness, redacted again twice when written, and *)
(* again when read.                                                        *)
(*                                                                         *)
(* A mapping is a sequence of entries in insertion order.  A key is its    *)
(* class in the policy and a name, to which the redaction may add a        *)
(* suffix.  A text is a kind of text: a safe word, a digest, a URL or      *)
(* anything else.  Every value tells which kinds of leaves it holds, at    *)
(* any depth.  Values that contain themselves (`seen`) are left out.       *)
(*                                                                         *)
(* The recursion of _sanitize_mapping and _sanitize_container is a stack   *)
(* of frames: a nested mapping or list is a call, which returns its        *)
(* redacted value to the frame below.                                      *)
(***************************************************************************)
EXTENDS Integers, Sequences

CONSTANTS
  MaxItems,     \* _MAX_ITEMS (100)
  MaxDepth,     \* _MAX_DEPTH (8)
  TooLong,      \* names of more than _MAX_KEY_LENGTH characters
  RawMappings,  \* metadata an event may be built with
  RawEntries    \* entries a caller may put into it afterwards

VARIABLES
  raw, stage,
  field,        \* the event's metadata
  stored,       \* the metadata in the trace table
  changed,      \* the caller has changed the event in place
  work,         \* the frames of the redaction under way, the outermost first
  passes        \* redactions still to end, the one under way included

vars == <<raw, stage, field, stored, changed, work, passes>>

----------------------------------------------------------------------------
\* Values and keys.

Leaf(type, n) == [type |-> type, n |-> n, items |-> <<>>, holds |-> {type}]
Number(n) == Leaf("number", n)
Redacted == Leaf("redacted", 0)
Digest == Leaf("digest", 0)
Word == Leaf("word", 0)
Texts == {"word", "digest", "url", "free", "redacted", "redacted_url"}
Collections == {"map", "list"}

Holds(entries) == UNION {entries[i].value.holds : i \in DOMAIN entries}
Mapping(entries) == [type |-> "map", n |-> 0, items |-> entries, holds |-> Holds(entries)]
List(entries) == [type |-> "list", n |-> 0, items |-> entries, holds |-> Holds(entries)]

Classes == {"metric", "identifier", "external", "hash", "category",
            "container", "loc", "categories", "sensitive", "binary", "unknown"}
Containers == {"container", "loc", "categories"}

Key(class, name) == [class |-> class, name |-> name]
Entry(key, value) == [key |-> key, value |-> value]

\* x_length and x_count are metrics, x_sha256 is a hash, whatever x is.
Suffixed(key, suffix) ==
  Key(IF suffix = "sha256" THEN "hash" ELSE "metric", Append(key.name, suffix))

\* Entries with any other key are left out.
Kept(key) == key.class \in Classes \ {"unknown"} /\ key.name \notin TooLong

\* An item of a list has no key.
Item(value) == Entry(Key("none", <<>>), value)

\* output[key] = value.
Put(out, key, value) ==
  IF \E i \in DOMAIN out : out[i].key = key
  THEN [i \in DOMAIN out |-> IF out[i].key = key THEN Entry(key, value) ELSE out[i]]
  ELSE Append(out, Entry(key, value))

KindEntry == Entry(Key("category", <<"kind">>), Word)
SizeEntry(n) == Entry(Key("metric", <<"size_bytes">>), Number(n))
HashEntry == Entry(Key("hash", <<"sha256">>), Digest)
binary_metadata == Mapping(<<KindEntry, SizeEntry(1), HashEntry>>)

\* Other entries may stand beside the three.
_is_binary_metadata(v) ==
  /\ v.type = "map"
  /\ \E i, j, k \in DOMAIN v.items :
       /\ v.items[i] = KindEntry
       /\ v.items[j].key = SizeEntry(1).key /\ v.items[j].value.type = "number"
       /\ v.items[k] = HashEntry

TruncatedKey == Key("metric", <<"truncated_count">>)

LimitAssumption ==
  /\ MaxItems \in Nat /\ MaxItems >= 3 /\ MaxDepth \in Nat \ {0}
  /\ {<<"kind">>, <<"size_bytes">>, <<"sha256">>, <<"truncated_count">>} \cap TooLong = {}

\* Metadata is a sequence of entries.
RawAssumption ==
  \A m \in RawMappings : Len(m) \in Nat /\ m = [i \in 1 .. Len(m) |-> m[i]]

\* What is kept of a sequence.
First(s) == IF Len(s) > MaxItems THEN SubSeq(s, 1, MaxItems) ELSE s

----------------------------------------------------------------------------
\* One value that is not looked into.

\* A text leaves its length and hash, a collection its size.
_store_redacted(out, key, v) ==
  IF v.type = "bytes" THEN Put(out, key, binary_metadata)
  ELSE IF v.type \in {"redacted", "redacted_url"} THEN Put(out, key, Leaf(v.type, 0))
  ELSE IF v.type \in Texts THEN
    Put(Put(Put(out, key, IF v.type = "url" THEN Leaf("redacted_url", 0) ELSE Redacted),
            Suffixed(key, "length"), Number(1)),
        Suffixed(key, "sha256"), Digest)
  ELSE IF v.type \in Collections THEN
    Put(Put(out, key, Redacted), Suffixed(key, "count"), Number(Len(v.items)))
  ELSE Put(out, key, Redacted)

_sanitize_metric(out, key, v) ==
  IF v.type = "number" THEN Put(out, key, Number(v.n)) ELSE _store_redacted(out, key, v)

\* A safe identifier stays, a number becomes one; anything else is hashed.
safe_identifier(v) == IF v.type \in {"word", "digest"} THEN Leaf(v.type, v.n)
                      ELSE IF v.type = "number" THEN Word ELSE Digest

opaque_trace_identifier(v) == Digest

\* A list of identifiers is cut, and each item treated alone.
_sanitize_identifier_value(class, v) ==
  LET Alone(w) == IF class = "external" THEN opaque_trace_identifier(w)
                  ELSE safe_identifier(w)
  IN  IF v.type # "list" THEN Alone(v)
      ELSE List([i \in DOMAIN First(v.items) |-> Item(Alone(v.items[i].value))])

_sanitize_hash(v) == Digest

safe_category(v) == IF v.type \in {"word", "digest"} THEN Leaf(v.type, v.n)
                    ELSE IF v.type = "number" THEN Word ELSE Redacted

\* An entry of a mapping; a collection under a container is too deep here.
_sanitize_entry(out, e) ==
  LET class == e.key.class
  IN  IF ~Kept(e.key) THEN out
      ELSE IF class = "metric" THEN _sanitize_metric(out, e.key, e.value)
      ELSE IF class \in {"identifier", "external"} THEN
        Put(out, e.key, _sanitize_identifier_value(class, e.value))
      ELSE IF class = "hash" THEN Put(out, e.key, _sanitize_hash(e.value))
      ELSE IF class = "category" THEN Put(out, e.key, safe_category(e.value))
      ELSE IF class \in Containers THEN Put(out, e.key, Redacted)
      ELSE _store_redacted(out, e.key, e.value)

\* An item of a list under a key of the class.
_sanitize_item(class, v) ==
  IF class = "category" THEN safe_category(v)
  ELSE IF v.type \in Collections THEN Redacted
  ELSE IF class = "loc" THEN safe_identifier(v)
  ELSE IF class = "categories" THEN safe_category(v)
  ELSE IF v.type = "bytes" THEN binary_metadata
  ELSE Redacted

----------------------------------------------------------------------------
\* Frames.

Frame(v, class, depth) ==
  [type |-> v.type, class |-> class, depth |-> depth, items |-> First(v.items),
   extra |-> Len(v.items) - Len(First(v.items)), at |-> 1, out |-> <<>>]

Top == work[Len(work)]
More(f) == f.at <= Len(f.items)
Current(f) == f.items[f.at]

\* The values that are looked into.  Lists of categories are not limited in depth.
Calls(f) ==
  LET v == Current(f).value
      class == IF f.type = "map" THEN Current(f).key.class ELSE f.class
  IN  /\ f.type = "map" => Kept(Current(f).key)
      /\ \/ class = "category" /\ v.type = "list"
         \/ class \in Containers /\ v.type \in Collections /\ f.depth < MaxDepth
         \/ class = "binary" /\ v.type = "map" /\ f.depth < MaxDepth

Called(f) ==
  Frame(Current(f).value, IF f.type = "map" THEN Current(f).key.class ELSE f.class, f.depth + 1)

\* What a frame returns says how many entries were left out.
Result(f) ==
  LET left == Entry(TruncatedKey, Number(f.extra))
  IN  IF f.type = "map"
      THEN Mapping(IF f.extra > 0 THEN Put(f.out, left.key, left.value) ELSE f.out)
      ELSE List(IF f.extra > 0 /\ f.class # "category"
                THEN Append(f.out, Item(Mapping(<<left>>))) ELSE f.out)

\* The loop goes on with the value in its place.
Return(f, v) ==
  [f EXCEPT !.at = @ + 1,
            !.out = IF f.type = "list" THEN Append(@, Item(v))
                    ELSE IF Current(f).key.class = "binary" /\ ~_is_binary_metadata(v)
                    THEN _store_redacted(@, Current(f).key, Current(f).value)
                    ELSE Put(@, Current(f).key, v)]

\* One turn of the loop without a call.
Turn(f) ==
  [f EXCEPT !.at = @ + 1,
            !.out = IF f.type = "map" THEN _sanitize_entry(@, Current(f))
                    ELSE Append(@, Item(_sanitize_item(f.class, Current(f).value)))]

redact_trace_mapping(items) == <<Frame(Mapping(items), "container", 0)>>

eventVars == <<raw, stage, field, stored, changed, passes>>

_sanitize_mapping ==
  /\ work # <<>> /\ Top.type = "map" /\ More(Top) /\ ~Calls(Top)
  /\ work' = [work EXCEPT ![Len(work)] = Turn(Top)]
  /\ UNCHANGED eventVars

_sanitize_container ==
  /\ work # <<>> /\ Top.type = "list" /\ More(Top) /\ ~Calls(Top)
  /\ work' = [work EXCEPT ![Len(work)] = Turn(Top)]
  /\ UNCHANGED eventVars

CallNested ==
  /\ work # <<>> /\ More(Top) /\ Calls(Top)
  /\ work' = Append(work, Called(Top))
  /\ UNCHANGED eventVars

ReturnNested ==
  LET caller == Len(work) - 1
  IN  /\ caller > 0 /\ ~More(Top)
      /\ work' = [i \in 1..caller |-> IF i = caller THEN Return(work[i], Result(Top))
                                      ELSE work[i]]
      /\ UNCHANGED eventVars

----------------------------------------------------------------------------
\* The event.

Init == /\ raw \in RawMappings
        /\ stage = "emitted"
        /\ field = <<>>
        /\ stored = <<>>
        /\ changed = FALSE
        /\ work = <<>>
        /\ passes = 0

\* Fault: redacted once.
for_persistenceOnce == 1

\* for_persistence: dumped, which redacts, and validated, which redacts.
for_persistence == 2

\* The field validator redacts when the event is built.
Build == /\ stage = "emitted"
         /\ stage' = "building"
         /\ work' = redact_trace_mapping(raw)
         /\ passes' = 1
         /\ UNCHANGED <<raw, field, stored, changed>>

\* A caller changes the dictionary in place, past every validator.
Change == /\ stage = "built"
          /\ ~changed
          /\ \E e \in RawEntries : field' = Put(field, e.key, e.value)
          /\ changed' = TRUE
          /\ UNCHANGED <<raw, stage, stored, work, passes>>

\* require_trace_completeness, then the recorder's write.
Write == /\ stage = "built"
         /\ field # <<>>
         /\ stage' = "writing"
         /\ work' = redact_trace_mapping(field)
         /\ passes' = for_persistence
         /\ UNCHANGED <<raw, field, stored, changed>>

Refuse == /\ stage = "built"
          /\ field = <<>>
          /\ stage' = "refused"
          /\ UNCHANGED <<raw, field, stored, changed, work, passes>>

\* Read through the same boundary; also what the sanitizer of old rows does.
Read == /\ stage = "stored"
        /\ stage' = "reading"
        /\ work' = redact_trace_mapping(stored)
        /\ passes' = for_persistence
        /\ UNCHANGED <<raw, field, stored, changed>>

\* The outermost frame returns: to the next redaction, or with the event's metadata.
Ended == Len(work) = 1 /\ ~More(Top)

NextPass == /\ Ended
            /\ passes > 1
            /\ work' = redact_trace_mapping(Result(Top).items)
            /\ passes' = passes - 1
            /\ UNCHANGED <<raw, stage, field, stored, changed>>

LastPass == /\ Ended
            /\ passes = 1
            /\ work' = <<>>
            /\ passes' = 0
            /\ \/ /\ stage \in {"building", "reading"}
                  /\ stage' = IF stage = "building" THEN "built" ELSE "read"
                  /\ field' = Result(Top).items
                  /\ UNCHANGED stored
               \/ /\ stage = "writing"
                  /\ stage' = "stored"
                  /\ stored' = Result(Top).items
                  /\ UNCHANGED field
            /\ UNCHANGED <<raw, changed>>

Next == \/ Build \/ Change \/ Write \/ Refuse \/ Read
        \/ _sanitize_mapping \/ _sanitize_container \/ CallNested \/ ReturnNested
        \/ NextPass \/ LastPass

Spec == Init /\ [][Next]_vars

----------------------------------------------------------------------------
\* Properties.

\* No free text, URL or bytes are ever stored or read back, at any depth and
\* under any key, even if a caller put them into the event past validation.
StoredIsSafe ==
  \A items \in {stored, IF stage = "read" THEN field ELSE <<>>} :
    Holds(items) \cap {"free", "url", "bytes"} = {}

KeysOf(items) == {items[i].key : i \in DOMAIN items}

\* Under a key for binary content stands no mapping but what bytes are reduced to.
PlainBinary(items) ==
  \A i \in DOMAIN items :
    items[i].key.class = "binary" /\ items[i].value.type = "map" =>
      items[i].value = binary_metadata

\* What is read has the keys that were stored: the passes before a write settle
\* every expansion (a redacted text becomes three entries, bytes become a
\* mapping and then two), so no later pass pushes an entry past the limit.  A
\* mapping that only looks like reduced bytes may settle later.
StoredIsSettled ==
  stage = "read" /\ ~changed /\ PlainBinary(raw) => KeysOf(field) = KeysOf(stored)

\* An event that passed the completeness check is not emptied by the passes
\* after it.
StoredIsComplete == stage = "stored" /\ ~changed => stored # <<>>

\* What is stored of an event is safe, stays as it is and is not emptied.
StoredAsPromised == StoredIsSafe /\ StoredIsSettled /\ StoredIsComplete
=============================================================================
