------------------------------- MODULE JsonPatch -------------------------------
(***************************************************************************)
(* json_patch.py apply_patch: a list of RFC 6902 operations on a document  *)
(* of Home Assistant, all of them or none.  The function runs in one       *)
(* piece; an operation is an action here so that a behaviour is one list   *)
(* of them.                                                                *)
(*                                                                         *)
(* Values are compared and copied as values: the code deep-copies the      *)
(* document and each value it puts into it, so no two places share one.    *)
(***************************************************************************)
EXTENDS Integers, FiniteSets, SequencesExt

CONSTANTS Documents,    \* what may be patched: objects
          Steps,        \* operations: op, tokens of path and of from, value
          IntOf,        \* the tokens that int() understands, and what it makes of them
          Views,        \* the key "views"
          Sensitive,    \* keys with a fragment of SENSITIVE_KEY_FRAGMENTS
          MaxDepth,     \* how deep a document may be (30 in _scan_sensitive)
          MaxLevels,    \* bound on the depth of what is patched, for TLC only
          MaxSteps      \* MAX_PATCH_OPERATIONS

VARIABLES document,     \* the document of the caller
          result,       \* the copy that is patched
          done,         \* how many operations were
          state,        \* unread, patching, failed, accepted or refused
          expected      \* history: the places of the result, by the reference below

jsonVars == <<document, result, done, state, expected>>

Leaf(v) == [type |-> "leaf", value |-> v]
Object(fields) == [type |-> "object", fields |-> fields]
List(items) == [type |-> "list", items |-> items]
Failure == [type |-> "failure"]

\* What the members of a value are called, and what they are.
Members(v) == CASE v.type = "object" -> {<<"member", k>> : k \in DOMAIN v.fields}
                [] v.type = "list"   -> {<<"item", i>> : i \in 0..(Len(v.items) - 1)}
                [] OTHER             -> {}
Inside(v, key) == IF key[1] = "member" THEN v.fields[key[2]] ELSE v.items[key[2] + 1]

\* All that a value is made of, with the path to it.
Reached(v) ==
    LET reached[n \in 0..MaxLevels] ==
            IF n = 0 THEN {[path |-> <<>>, value |-> v]}
            ELSE UNION {{[path |-> Append(r.path, key), value |-> Inside(r.value, key)] :
                            key \in Members(r.value)} : r \in reached[n - 1]}
    IN  UNION {reached[n] : n \in 0..MaxLevels}

Bounded(v) == \A r \in Reached(v) : Len(r.path) < MaxLevels

IsNode(v) == CASE v.type = "object" -> /\ v = Object([k \in DOMAIN v.fields |-> v.fields[k]])
                                       /\ DOMAIN v.fields \subseteq STRING
               [] v.type = "list"   -> /\ v = List(v.items)
                                       /\ v.items \in Seq(Range(v.items))
               [] OTHER             -> v = Leaf(v.value)
IsJson(v) == Bounded(v) /\ \A r \in Reached(v) : IsNode(r.value)

ASSUME PatchAssumption ==
    /\ MaxLevels \in Nat
    /\ "-" \notin DOMAIN IntOf /\ \A token \in DOMAIN IntOf : IntOf[token] \in Int
    /\ \A doc \in Documents : IsJson(doc)
    /\ \A s \in Steps : /\ s.op \in {"add", "replace", "remove", "copy", "move", "test"}
                        /\ s.path \in Seq(STRING) /\ s.from \in Seq(STRING)
                        /\ IsJson(s.value)
--------------------------------------------------------------------------------
\* _index; -1 if it raises.
Index(token, length, allowEnd) ==
    LET last == IF allowEnd THEN length ELSE length - 1
    IN  CASE token = "-" /\ allowEnd -> length
          [] token \in DOMAIN IntOf /\ IntOf[token] \in 0..last -> IntOf[token]
          [] OTHER -> -1

\* One step of _get and _parent.
Child(v, token) ==
    CASE v.type = "object" /\ token \in DOMAIN v.fields -> v.fields[token]
      [] v.type = "list" /\ Index(token, Len(v.items), FALSE) # -1
            -> v.items[Index(token, Len(v.items), FALSE) + 1]
      [] OTHER -> Failure

\* The values on the way that tokens lead.
Way(doc, tokens) ==
    LET way[i \in 0..Len(tokens)] == IF i = 0 THEN doc ELSE Child(way[i - 1], tokens[i])
    IN  way

Get(doc, tokens) == Way(doc, tokens)[Len(tokens)]

With(fields, key, v) == [k \in DOMAIN fields \cup {key} |-> IF k = key THEN v ELSE fields[k]]
Without(fields, key) == [k \in DOMAIN fields \ {key} |-> fields[k]]

\* The last step of _add, _replace and _remove, in a list.
ChangeList(items, verb, token, v) ==
    LET i == Index(token, Len(items), verb = "add")
    IN  IF i = -1 THEN Failure
        ELSE List(CASE verb = "add"     -> InsertAt(items, i + 1, v)
                    [] verb = "replace" -> ReplaceAt(items, i + 1, v)
                    [] verb = "remove"  -> RemoveAt(items, i + 1))

\* Mutant of ChangeObject: a member that is not there is replaced, too.
ChangeAnyMember(fields, verb, token, v) ==
    IF verb = "remove" THEN Object(Without(fields, token))
                       ELSE Object(With(fields, token, v))

ChangeObject(fields, verb, token, v) ==
    IF verb # "add" /\ token \notin DOMAIN fields THEN Failure
    ELSE Object(IF verb = "remove" THEN Without(fields, token) ELSE With(fields, token, v))

ChangeMember(parent, verb, token, v) ==
    IF v = Failure THEN Failure
    ELSE CASE parent.type = "object" -> ChangeObject(parent.fields, verb, token, v)
           [] parent.type = "list"   -> ChangeList(parent.items, verb, token, v)
           [] OTHER                  -> Failure

\* _add, _replace, _remove: the last token names a member of the value that the
\* others lead to, and every value on the way is one with a changed member.
Change(doc, verb, tokens, v) ==
    LET n == Len(tokens)
        changed[k \in 0..n] ==
            IF k = 0 THEN v
            ELSE ChangeMember(Way(doc, tokens)[n - k], IF k = 1 THEN verb ELSE "replace",
                              tokens[n + 1 - k], changed[k - 1])
    IN  IF n = 0 THEN Failure ELSE changed[n]

\* Mutant of Move: the value is put in before it is taken out.
MoveAddsFirst(doc, s) ==
    LET moved == Change(doc, "add", s.path, Get(doc, s.from))
    IN  IF Get(doc, s.from) = Failure \/ moved = Failure THEN Failure
        ELSE Change(moved, "remove", s.from, Leaf(0))

Move(doc, s) ==
    LET rest == Change(doc, "remove", s.from, Leaf(0))
    IN  IF rest = Failure THEN Failure ELSE Change(rest, "add", s.path, Get(doc, s.from))

Perform(doc, s) ==
    CASE s.op \in {"add", "replace", "remove"} -> Change(doc, s.op, s.path, s.value)
      [] s.op = "copy" -> Change(doc, "add", s.path, Get(doc, s.from))
      [] s.op = "move" -> Move(doc, s)
      [] s.op = "test" -> IF Get(doc, s.path) = s.value THEN doc ELSE Failure

\* _scan_sensitive.
Scanned(v) == \A r \in Reached(v) :
                 /\ Len(r.path) <= MaxDepth
                 /\ r.value.type = "object" => DOMAIN r.value.fields \cap Sensitive = {}

\* validate_dashboard_config.  (A result that is too large is refused as well.)
Valid(doc) == /\ doc.type = "object"
              /\ Views \in DOMAIN doc.fields => doc.fields[Views].type = "list"
              /\ Scanned(doc)
--------------------------------------------------------------------------------
(* The reference: a document as the set of its places, each with the path  *)
(* to it and what is there.                                                *)

Mark(v) == IF v.type = "leaf" THEN <<"leaf", v.value>> ELSE <<v.type>>

PlacesOf(v) == {[path |-> r.path, what |-> Mark(r.value)] : r \in Reached(v)}

IsList(P) == [path |-> <<>>, what |-> <<"list">>] \in P
IsObject(P) == [path |-> <<>>, what |-> <<"object">>] \in P
Has(P, key) == \E p \in P : p.path = <<key>>
Indices(P) == {p.path[1][2] : p \in {p \in P : Len(p.path) = 1}}

Under(P, path) == {[p EXCEPT !.path = SubSeq(@, Len(path) + 1, Len(@))] :
                      p \in {p \in P : IsPrefix(path, p.path)}}
PutAt(P, path) == {[p EXCEPT !.path = path \o @] : p \in P}
Pruned(P, path) == {p \in P : ~IsPrefix(path, p.path)}

\* The member that a token names: "-" is the one after the last of a list.
Key(P, token) ==
    IF ~IsList(P) THEN <<"member", token>>
    ELSE <<"item", IF token = "-" THEN Cardinality(Indices(P))
                   ELSE IF token \in DOMAIN IntOf THEN IntOf[token] ELSE -1>>

\* The paths that the first tokens mean, the next one from what is at the last.
Meant(P, tokens) ==
    LET meant[i \in 0..Len(tokens)] ==
            IF i = 0 THEN <<>>
            ELSE LET path == meant[i - 1] IN Append(path, Key(Under(P, path), tokens[i]))
    IN  meant

At(P, tokens) == Under(P, Meant(P, tokens)[Len(tokens)])

\* The items at and after an index move by one.
Shifted(P, index, by) ==
    LET Moves(p) == p.path # <<>> /\ p.path[1][2] >= index
        To(p) == [p EXCEPT !.path = <<<<"item", @[1][2] + by>>>> \o Tail(@)]
    IN  {IF Moves(p) THEN To(p) ELSE p : p \in P}

Assigned(P, key, V) == Pruned(P, <<key>>) \cup PutAt(V, <<key>>)

\* An object or a list after one of its members was added, removed or replaced;
\* nothing is left of it when that is an error.
MemberAdded(P, key, V) ==
    IF V = {} THEN {}
    ELSE CASE IsObject(P) -> Assigned(P, key, V)
           [] IsList(P) /\ key[2] \in 0..Cardinality(Indices(P))
                          -> Shifted(P, key[2], 1) \cup PutAt(V, <<key>>)
           [] OTHER       -> {}
MemberRemoved(P, key) ==
    IF ~Has(P, key) THEN {}
    ELSE IF IsList(P) THEN Shifted(Pruned(P, <<key>>), key[2], -1) ELSE Pruned(P, <<key>>)
MemberReplaced(P, key, V) == IF Has(P, key) THEN Assigned(P, key, V) ELSE {}

\* The document after P became of the value at path, if anything did.
Within(P, path, M) == IF M = {} THEN {} ELSE Pruned(P, path) \cup PutAt(M, path)

\* The document after an operation on one of its places; with no tokens the place
\* is the whole document, which a removal leaves nothing of.
Referred(P, verb, tokens, V) ==
    LET n == Len(tokens)
        parent == Meant(P, tokens)[n - 1]
        key == Last(Meant(P, tokens)[n])
    IN  IF n = 0 THEN (IF verb = "remove" THEN {} ELSE V)
        ELSE Within(P, parent, CASE verb = "add"     -> MemberAdded(Under(P, parent), key, V)
                                 [] verb = "replace" -> MemberReplaced(Under(P, parent), key, V)
                                 [] verb = "remove"  -> MemberRemoved(Under(P, parent), key))

\* A move is a removal and an addition.
Moved(P, s) == Referred(Referred(P, "remove", s.from, {}), "add", s.path, At(P, s.from))

\* A value is moved into one of its own members.
IntoItself(s) == s.op = "move" /\ IsStrictPrefix(s.from, s.path)

\* What RFC 6902 says of one operation; nothing is left when it is an error.
Reference(P, s) ==
    CASE s.op \in {"add", "replace", "remove"} -> Referred(P, s.op, s.path, PlacesOf(s.value))
      [] s.op = "copy" -> Referred(P, "add", s.path, At(P, s.from))
      [] s.op = "move" -> IF IntoItself(s) THEN {} ELSE Moved(P, s)
      [] s.op = "test" -> IF At(P, s.path) = PlacesOf(s.value) THEN P ELSE {}

\* ROOT_PATCH_DENIED: whatever would write or take out the whole document.
Denied(s) == \/ s.path = <<>> /\ s.op # "test"
             \/ s.from = <<>> /\ s.op = "move"

\* The two places where the code means to differ, or does not look: it denies more,
\* and it moves a value into itself if something else is found at the path by then.
Expected(P, s) == IF Denied(s) THEN {}
                  ELSE IF IntoItself(s) THEN Moved(P, s)
                  ELSE Reference(P, s)
--------------------------------------------------------------------------------
JsonInit == /\ document = Object(<<>>) /\ result = Object(<<>>)
            /\ done = 0 /\ state = "unread" /\ expected = {}

Open(doc) == /\ state = "unread"
             /\ document' = doc /\ result' = doc /\ expected' = PlacesOf(doc)
             /\ state' = "patching"
             /\ UNCHANGED done

\* An operation that raises ends it: the copy is dropped.
Patch(s) == /\ state = "patching" /\ done < MaxSteps
            /\ done' = done + 1
            /\ expected' = Expected(expected, s)
            /\ \/ /\ Perform(result, s) # Failure /\ Bounded(Perform(result, s))
                  /\ result' = Perform(result, s)
                  /\ UNCHANGED state
               \/ /\ Perform(result, s) = Failure
                  /\ result' = document
                  /\ state' = "failed"
            /\ UNCHANGED document

\* An empty list (PATCH_REQUIRED) or a document that is not valid.
Finish == /\ state = "patching"
          /\ state' = IF done > 0 /\ Valid(result) THEN "accepted" ELSE "refused"
          /\ UNCHANGED <<document, result, done, expected>>

JsonNext == \/ \E doc \in Documents : Open(doc)
            \/ \E s \in Steps : Patch(s)
            \/ Finish

JsonSpec == JsonInit /\ [][JsonNext]_jsonVars
--------------------------------------------------------------------------------
(* The patch does to the places of a document what RFC 6902 says, also in  *)
(* lists whose items move, at "-", at their last index and one after it,   *)
(* and where a move shifts its own target; and it raises where RFC 6902    *)
(* says that an operation is an error.  There are three exceptions.  RFC   *)
(* 6902 lets add, replace, copy and move write the whole document, at the  *)
(* path "": the code raises (Denied, json_patch.py:39-43).  A move into    *)
(* what is moved is an error there: here it passes when the next item of a *)
(* list takes its place (IntoItself, json_patch.py:177-182).  And indices  *)
(* like "01", which int() understands, name an item here (IntOf).          *)
PatchesByReference == IF state = "failed" THEN expected = {}
                      ELSE state # "unread" => PlacesOf(result) = expected
================================================================================
