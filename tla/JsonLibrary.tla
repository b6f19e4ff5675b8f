----------------------------- MODULE JsonLibrary -----------------------------
(***************************************************************************)
(* A caller of cJSON: it parses texts, builds documents, rearranges them   *)
(* and deletes what it holds, in any legal order, while any allocation may *)
(* fail.  The parser is one step per token: cJSON_Parse calls parse_value, *)
(* which parse_array and parse_object call again for every element; a frame *)
(* of `stack` holds the local variables of one such call.                  *)
(***************************************************************************)
EXTENDS JsonItems

CONSTANTS
    Texts,         \* sequences of tokens that are parsed
    LaterTexts,    \* bound: ... after the first call
    NestingLimit,  \* CJSON_NESTING_LIMIT
    MaxCalls       \* bound: calls of the library

ASSUME CallsAssumption ==
    /\ NestingLimit \in Nat /\ MaxCalls \in Nat
    /\ LaterTexts \subseteq Texts
    /\ \A t \in Texts : t \in Seq(Types \cup Strings \cup {"{", "}", "[", "]", ",", ":"})

VARIABLES
    heap,          \* items allocated
    blocks,        \* string blocks allocated
    held,          \* items the caller has to delete, each the root of a tree
    calls,         \* calls so far
    mode,          \* "idle", or what the parser is about to do
    text, pos,     \* parse_buffer: its tokens and the next one
    depth,         \* ... and its depth
    stack,         \* calls of parse_array and parse_object
    root,          \* the item cJSON_ParseWithLengthOpts creates
    outcome,       \* of the last call, when that was cJSON_Parse
    oom            \* history: an allocation failed while parsing

parser == <<mode, text, pos, depth, stack, root>>
vars == <<heap, blocks, held, calls, parser, outcome, oom>>

Init ==
    /\ heap = <<>> /\ blocks = 0 /\ held = {} /\ calls = 0
    /\ mode = "idle" /\ text = <<>> /\ pos = 1 /\ depth = 0 /\ stack = <<>>
    /\ root = NULL /\ outcome = "none" /\ oom = FALSE

\* buffer_skip_whitespace takes the '\0' at the end for white space and steps
\* back onto it, so that past the last token every test fails.
Token == IF pos <= Len(text) THEN text[pos] ELSE "end"
Top == stack[Len(stack)]
SetTop(frame) == [stack EXCEPT ![Len(stack)] = frame]
Closer == IF Top.kind = "array" THEN "]" ELSE "}"
\* The item that parse_value is to fill in.
Target == IF stack = <<>> THEN root ELSE Top.current

-----------------------------------------------------------------------------
(***************************************************************************)
(* cJSON_Parse.                                                            *)
(***************************************************************************)
OutOfMemory ==
    /\ mode' = "fail" /\ oom' = TRUE
    /\ UNCHANGED <<heap, blocks, held, calls, text, pos, depth, stack, root, outcome>>
Reject ==
    /\ mode' = "fail"
    /\ UNCHANGED <<heap, blocks, held, calls, text, pos, depth, stack, root, outcome, oom>>

Parse(t) ==
    /\ mode = "idle" /\ calls < MaxCalls
    /\ calls' = calls + 1 /\ text' = t /\ pos' = 1 /\ outcome' = "none"
    /\ \/ /\ ~Full(heap)
          /\ heap' = New_Item(heap, Plain("invalid"))
          /\ root' = Fresh(heap) /\ mode' = "value" /\ oom' = FALSE
       \/ /\ mode' = "fail" /\ oom' = TRUE /\ root' = NULL
          /\ UNCHANGED heap
    /\ depth' = 0
    /\ UNCHANGED <<blocks, held, stack>>

Scalars == {"literal", "number"}
parse_scalar ==
    /\ mode = "value" /\ Token \in Scalars
    /\ heap' = [heap EXCEPT ![Target].type = Token]
    /\ pos' = pos + 1 /\ mode' = "after"
    /\ UNCHANGED <<blocks, held, calls, text, depth, stack, root, outcome, oom>>

parse_string ==
    /\ mode = "value" /\ Token \in Strings
    /\ \/ /\ heap' = [heap EXCEPT ![Target].type = "string",
                                  ![Target].valuestring = Token]
          /\ blocks' = blocks + 1
          /\ pos' = pos + 1 /\ mode' = "after"
          /\ UNCHANGED <<held, calls, text, depth, stack, root, outcome, oom>>
       \/ OutOfMemory

\* The start of parse_array and parse_object, up to the loop.
KindOf == [t \in {"[", "{"} |-> IF t = "[" THEN "array" ELSE "object"]
EnterAtAnyDepth ==    \* mutant: no CJSON_NESTING_LIMIT
    /\ mode = "value" /\ Token \in {"[", "{"}
    /\ depth' = depth + 1
    /\ stack' = Append(stack, [kind |-> KindOf[Token], item |-> Target,
                               head |-> NULL, current |-> NULL])
    /\ pos' = pos + 1
    /\ mode' = IF pos < Len(text) /\ text[pos + 1] = (IF Token = "[" THEN "]" ELSE "}")
               THEN "close" ELSE "item"
    /\ UNCHANGED <<heap, blocks, held, calls, text, root, outcome, oom>>
Enter ==
    /\ mode = "value" /\ Token \in {"[", "{"} /\ depth < NestingLimit
    /\ depth' = depth + 1
    /\ stack' = Append(stack, [kind |-> KindOf[Token], item |-> Target,
                               head |-> NULL, current |-> NULL])
    /\ pos' = pos + 1
    /\ mode' = IF pos < Len(text) /\ text[pos + 1] = (IF Token = "[" THEN "]" ELSE "}")
               THEN "close" ELSE "item"
    /\ UNCHANGED <<heap, blocks, held, calls, text, root, outcome, oom>>

\* Nothing else starts a value, and nesting has a limit.
RejectValue ==
    /\ mode = "value"
    /\ \/ Token \in {"[", "{"} /\ depth >= NestingLimit
       \/ Token \notin Scalars \cup Strings \cup {"[", "{"}
    /\ Reject

\* The loop of parse_array and parse_object: a new item at the end of the list.
NewItem ==
    /\ mode = "item"
    /\ \/ /\ ~Full(heap)
          /\ LET new == Fresh(heap)
                 with == New_Item(heap, [Plain("invalid") EXCEPT !.prev = Top.current])
             IN /\ heap' = IF Top.head = NULL THEN with
                           ELSE [with EXCEPT ![Top.current].next = new]
                /\ stack' = SetTop([Top EXCEPT
                       !.head = IF @ = NULL THEN new ELSE @, !.current = new])
          /\ mode' = IF Top.kind = "array" THEN "value" ELSE "name"
          /\ UNCHANGED <<blocks, held, calls, text, pos, depth, root, outcome, oom>>
       \/ OutOfMemory

\* parse_object: the key is parsed as a string and moved from valuestring to
\* string, then a colon.
parse_name_in_place ==    \* mutant: the key stays in valuestring
    /\ mode = "name" /\ Token \in Strings
    /\ \/ /\ heap' = [heap EXCEPT ![Top.current].valuestring = Token,
                                  ![Top.current].type = "string"]
          /\ blocks' = blocks + 1
          /\ pos' = pos + 1 /\ mode' = "colon"
          /\ UNCHANGED <<held, calls, text, depth, stack, root, outcome, oom>>
       \/ OutOfMemory
parse_name ==
    /\ mode = "name" /\ Token \in Strings
    /\ \/ /\ heap' = [heap EXCEPT ![Top.current].string = Token,
                                  ![Top.current].type = "string"]
          /\ blocks' = blocks + 1
          /\ pos' = pos + 1 /\ mode' = "colon"
          /\ UNCHANGED <<held, calls, text, depth, stack, root, outcome, oom>>
       \/ OutOfMemory
Colon ==
    /\ mode = "colon" /\ Token = ":"
    /\ pos' = pos + 1 /\ mode' = "value"
    /\ UNCHANGED <<heap, blocks, held, calls, text, depth, stack, root, outcome, oom>>
RejectMember ==
    /\ \/ mode = "name" /\ Token \notin Strings
       \/ mode = "colon" /\ Token # ":"
    /\ Reject

\* After an element: a comma, the end of the list, or an error.
Comma ==
    /\ mode = "after" /\ stack # <<>> /\ Token = ","
    /\ pos' = pos + 1 /\ mode' = "item"
    /\ UNCHANGED <<heap, blocks, held, calls, text, depth, stack, root, outcome, oom>>
RejectEnd ==
    /\ mode = "after" /\ stack # <<>> /\ Token \notin {",", Closer}
    /\ Reject

\* `success:` of parse_array and parse_object.
LeaveDepth == depth' = depth      \* mutant: no depth--
LowerDepth == depth' = depth - 1
LinkedOneWay(h, frame) ==         \* mutant: head->prev is not set
    [h EXCEPT ![frame.item].type = frame.kind, ![frame.item].child = frame.head]
CloseList(h, frame) ==
    [i \in DOMAIN h |->
        IF i = frame.item
        THEN [h[i] EXCEPT !.type = frame.kind, !.child = frame.head]
        ELSE IF i = frame.head THEN [h[i] EXCEPT !.prev = frame.current] ELSE h[i]]
Close ==
    /\ \/ mode = "close"
       \/ mode = "after" /\ stack # <<>> /\ Token = Closer
    /\ LowerDepth
    /\ heap' = CloseList(heap, Top)
    /\ stack' = Front(stack)
    /\ pos' = pos + 1 /\ mode' = "after"
    /\ UNCHANGED <<blocks, held, calls, text, root, outcome, oom>>

\* The value is complete; what follows it is not looked at.
Accept ==
    /\ mode = "after" /\ stack = <<>>
    /\ mode' = "idle" /\ outcome' = "item" /\ held' = held \cup {root}
    /\ UNCHANGED <<heap, blocks, calls, text, pos, depth, stack, root, oom>>

\* `fail:` of one call after the other: each deletes its own list.
Deletes(first) ==
    /\ heap' = Delete(heap, first)
    /\ blocks' = blocks - Blocks(heap, Reached(heap, {first}))
KeepsTheList ==    \* mutant: returns without cJSON_Delete(head)
    UNCHANGED <<heap, blocks>>
DeletesTheList == Deletes(Top.head)
Unwind ==
    /\ mode = "fail" /\ stack # <<>>
    /\ DeletesTheList
    /\ stack' = Front(stack)
    /\ UNCHANGED <<held, calls, mode, text, pos, depth, root, outcome, oom>>
ParseFails ==
    /\ mode = "fail" /\ stack = <<>>
    /\ Deletes(root)
    /\ mode' = "idle" /\ outcome' = "null" /\ root' = NULL
    /\ UNCHANGED <<held, calls, text, pos, depth, stack, oom>>

-----------------------------------------------------------------------------
(***************************************************************************)
(* The other calls, each one step.  One that finds no memory frees what it *)
(* has allocated, returns NULL or false and, with one exception, has changed *)
(* nothing.                                                                *)
(***************************************************************************)
Call ==
    /\ mode = "idle" /\ calls < MaxCalls /\ calls' = calls + 1
    /\ text' = <<>> /\ pos' = 1 /\ depth' = 0 /\ root' = NULL
    /\ outcome' = "none" /\ oom' = FALSE
    /\ UNCHANGED <<mode, stack>>
Containers(type) == {i \in DOMAIN heap : heap[i].type = type}

CreateObject ==
    /\ Call /\ ~Full(heap)
    /\ heap' = New_Item(heap, Plain("object"))
    /\ held' = held \cup {Fresh(heap)}
    /\ UNCHANGED blocks

\* cJSON_AddNumberToObject, cJSON_AddStringToObject, cJSON_AddObjectToObject:
\* create, then add; if there is no memory for the key the item is deleted.
AddNew(object, key, item) ==
    /\ Call /\ ~Full(heap)
    /\ LET new == Fresh(heap)
           with == New_Item(heap, [item EXCEPT !.string = key])
       IN /\ heap' = add_item_to_array(with, object, new)
          /\ blocks' = blocks + Blocks(heap', {new})
    /\ UNCHANGED held

\* add_item_to_object, with an item of the caller: the old key is freed, the
\* list is extended.
AddItemToObject(object, key, item) ==
    /\ Call /\ item \in held /\ object \notin Tree(heap, item)
    /\ heap' = add_item_to_array(SetKey(heap, item, key), object, item)
    /\ blocks' = blocks + (IF heap[item].string = "none" THEN 1 ELSE 0)
    /\ held' = held \ {item}

AddItemToArray(array, item) ==
    /\ Call /\ item \in held /\ array \notin Tree(heap, item)
    /\ heap' = add_item_to_array(heap, array, item)
    /\ held' = held \ {item}
    /\ UNCHANGED blocks

DetachItem(parent, item) ==
    /\ Call /\ item \in ToSet(Members(heap, parent))
    /\ heap' = DetachItemViaPointer(heap, parent, item)
    /\ held' = held \cup {item}
    /\ UNCHANGED blocks

InsertItem(array, which, item) ==
    /\ Call /\ item \in held /\ array \notin Tree(heap, item)
    /\ which \in 1 .. Len(Members(heap, array)) + 1
    /\ heap' = InsertItemInArray(heap, array, which, item)
    /\ held' = held \ {item}
    /\ UNCHANGED blocks

\* cJSON_ReplaceItemInArray; the item that was there is deleted.
ReplaceItem(parent, item, replacement) ==
    /\ Call /\ item \in ToSet(Members(heap, parent))
    /\ replacement \in held /\ parent \notin Tree(heap, replacement)
    /\ LET placed == ReplaceItemViaPointer(heap, parent, item, replacement)
       IN /\ heap' = Delete(placed, item)
          /\ blocks' = blocks - Blocks(heap, Tree(heap, item))
    /\ held' = held \ {replacement}

\* replace_item_in_object: the old key of the replacement is freed before there
\* is memory for the new one, which is set whether or not an item has it.
LosesTheKey(object, replacement) ==
    /\ Call /\ replacement \in held /\ object \notin Tree(heap, replacement)
    /\ heap' = SetKey(heap, replacement, "none")
    /\ blocks' = blocks - (IF heap[replacement].string = "none" THEN 0 ELSE 1)
    /\ UNCHANGED held
ReplaceItemInObject(object, key, replacement) ==
    /\ Call /\ replacement \in held /\ object \notin Tree(heap, replacement)
    /\ LET keyed == SetKey(heap, replacement, key)
           item == get_object_item(heap, object, key)
           more == IF heap[replacement].string = "none" THEN 1 ELSE 0
       IN IF item = NULL
          THEN heap' = keyed /\ blocks' = blocks + more /\ UNCHANGED held
          ELSE /\ heap' = Delete(ReplaceItemViaPointer(keyed, object, item, replacement), item)
               /\ blocks' = blocks + more - Blocks(heap, Tree(heap, item))
               /\ held' = held \ {replacement}

\* Without the memory for all of it cJSON_Duplicate deletes what it has copied
\* and returns NULL: nothing has changed.
DuplicateItem(item) ==
    /\ Call /\ Cardinality(Ids \ DOMAIN heap) >= Cardinality(Tree(heap, item))
    /\ heap' = Duplicate(heap, item)
    /\ blocks' = blocks + Blocks(heap, Tree(heap, item))
    /\ held' = held \cup {Copies(heap, item)[item]}

\* cJSON_Delete.
DeleteItem(item) ==
    /\ Call /\ item \in held
    /\ Deletes(item)
    /\ held' = held \ {item}

ParserStep ==
    \/ parse_scalar \/ parse_string \/ Enter \/ RejectValue \/ NewItem
    \/ parse_name \/ Colon \/ RejectMember \/ Comma \/ RejectEnd \/ Close
    \/ Accept \/ Unwind \/ ParseFails

Edit ==
    \/ CreateObject
    \/ \E o \in Containers("object"), key \in Strings :
          \/ AddNew(o, key, Plain("object")) \/ AddNew(o, key, Plain("number"))
          \/ \E v \in Strings :
                AddNew(o, key, [Plain("string") EXCEPT !.valuestring = v])
          \/ \E i \in held : \/ AddItemToObject(o, key, i) \/ ReplaceItemInObject(o, key, i)
                             \/ LosesTheKey(o, i)
    \/ \E a \in Containers("array"), i \in held :
          AddItemToArray(a, i) \/ \E n \in Ids : InsertItem(a, n, i)
    \/ \E p \in DOMAIN heap, i \in DOMAIN heap :
          DetachItem(p, i) \/ \E r \in held : ReplaceItem(p, i, r)
    \/ \E i \in DOMAIN heap : DuplicateItem(i)
    \/ \E i \in held : DeleteItem(i)

Next ==
    \/ \E t \in Texts : (calls = 0 \/ t \in LaterTexts) /\ Parse(t)
    \/ ParserStep
    \/ Edit
Spec == Init /\ [][Next]_vars

-----------------------------------------------------------------------------
(***************************************************************************)
(* The grammar, by what a whole value may be rather than by how it is read.*)
(***************************************************************************)
\* Tokens i to j - 1 of t, as a pair.
Spans(t) == {s \in (1 .. Len(t)) \X (1 .. Len(t) + 1) : s[1] < s[2]}
Atoms(t) == {s \in Spans(t) : s[2] = s[1] + 1 /\ t[s[1]] \in Scalars \cup Strings}

\* Between the delimiters a and b stands one of the values of `inner`, in an
\* object behind its key.
IsElement(t, inner, bracket, a, b) ==
    IF bracket = "[" THEN <<a + 1, b>> \in inner
    ELSE <<a + 3, b>> \in inner /\ t[a + 1] \in Strings /\ t[a + 2] = ":"
\* Commas may stand in the elements too: some of them separate the elements.
Commas(t, first, last) == {k \in first .. last : t[k] = ","}
AreSeparated(t, inner, i, commas, last) ==
    \A a \in {i} \cup commas, b \in commas \cup last :
        (a < b /\ \A c \in commas : c <= a \/ c >= b) => IsElement(t, inner, t[i], a, b)
IsList(t, inner, i, j) ==
    /\ j >= i + 2 /\ <<t[i], t[j - 1]>> \in {<<"[", "]">>, <<"{", "}">>}
    /\ \/ j = i + 2
       \/ \E commas \in SUBSET Commas(t, i + 1, j - 2) :
             AreSeparated(t, inner, i, commas, {j - 1})

\* The values in t, by the levels of brackets they may have.
Values(t) ==
    LET Within[d \in 0 .. NestingLimit] ==
            IF d = 0 THEN Atoms(t)
            ELSE LET inner == Within[d - 1]
                 IN Atoms(t) \cup {s \in Spans(t) : IsList(t, inner, s[1], s[2])}
    IN Within

-----------------------------------------------------------------------------
(***************************************************************************)
(* Properties.                                                             *)
(***************************************************************************)
TypeOK ==
    /\ DOMAIN heap \subseteq Ids /\ \A i \in DOMAIN heap : heap[i] \in Item
    /\ blocks \in Nat /\ held \subseteq DOMAIN heap
    /\ calls \in 0 .. MaxCalls
    /\ mode \in {"idle", "value", "item", "name", "colon", "after", "close", "fail"}
    /\ text \in Texts \cup {<<>>} /\ pos \in 1 .. Len(text) + 1
    /\ depth \in 0 .. NestingLimit
    /\ stack \in Seq([kind : {"array", "object"}, item : Ids, head : Ptrs, current : Ptrs])
    /\ root \in Ptrs
    /\ outcome \in {"none", "item", "null"} /\ oom \in BOOLEAN

\* The lists that no item points at yet: what the caller holds and what the
\* calls of the parser have in their local variables.
Roots == held \cup (IF mode = "idle" THEN {} ELSE {root} \ {NULL})
              \cup ({stack[k].head : k \in 1 .. Len(stack)} \ {NULL})

\* Every item is in exactly one place, a list or somebody's hand, and every
\* string block in one item: nothing leaks when a parse fails half-way, no
\* call frees twice, and cJSON_Delete of what is held frees all.
NothingLeaks ==
    /\ Reached(heap, Roots) = DOMAIN heap
    /\ \A i \in DOMAIN heap :
          LET places == {<<"child", j>> : j \in {k \in DOMAIN heap : heap[k].child = i}}
                   \cup {<<"next", j>> : j \in {k \in DOMAIN heap : heap[k].next = i}}
                   \cup {<<"root", i>> : j \in Roots \cap {i}}
          IN Cardinality(places) = 1
    /\ blocks = Blocks(heap, DOMAIN heap)

\* Of every list of children next leads from the first to the last, prev back,
\* and prev of the first is the last: add_item_to_array appends there.
WellLinked ==
    \A p \in DOMAIN heap : heap[p].child # NULL =>
        LET list == Members(heap, p)
        IN /\ list # <<>>
           /\ heap[Last(list)].next = NULL
           /\ \A k \in 1 .. Len(list) :
                 heap[list[k]].prev = list[IF k = 1 THEN Len(list) ELSE k - 1]

\* cJSON_Parse accepts a text exactly if a value stands at its start, within
\* the nesting limit, and fails otherwise only for want of memory; the position
\* it returns is the end of that value.
ParsesTheGrammar ==
    /\ outcome = "item" => <<1, pos>> \in Values(text)[NestingLimit]
    /\ outcome = "null" /\ ~oom => \A s \in Values(text)[NestingLimit] : s[1] # 1

\* What was parsed prints as the text it was read from.
PrintsWhatItParsed ==
    outcome = "item" => print_value(heap, root) = SubSeq(text, 1, pos - 1)

\* However a document has been put together, cJSON_GetObjectItem finds the
\* first of its members whose key is the name, in any case.
FindsTheFirst ==
    mode = "idle" =>
        \A o \in Containers("object"), name \in Strings :
            LET members == Members(heap, o)
                same == {k \in 1 .. Len(members) : SameKey(name, heap[members[k]].string)}
            IN get_object_item(heap, o, name) =
                   IF same = {} THEN NULL ELSE members[Min(same)]
=============================================================================
