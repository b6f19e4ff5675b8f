------------------------------ MODULE JsonItems ------------------------------
(***************************************************************************)
(* The tree of cJSON items (lib/cJSON/src/cJSON.c) as a heap: a function   *)
(* from the items that are allocated to their fields.  The children of an  *)
(* item are a list linked by next and prev, where prev of the first child  *)
(* is the last.  Each operator is the effect of one function of the library *)
(* on the heap h; `string` is the key an item has in an object.            *)
(***************************************************************************)
EXTENDS Naturals, FiniteSets, Sequences, FiniteSetsExt, SequencesExt

CONSTANTS
    MaxItems,      \* bound: items that can be allocated at a time
    Strings,       \* texts of strings and keys
    Lower          \* tolower() on them

NULL == 0
Ids == 1 .. MaxItems
Ptrs == Ids \cup {NULL}
Types == {"invalid", "literal", "number", "string", "array", "object"}

ASSUME JsonAssumption ==
    /\ MaxItems \in Nat
    /\ Lower \in [Strings -> Strings]
    /\ {"none", "end"} \cap Strings = {} /\ Strings \cap (Types \cup {"{", "}", "[", "]", ",", ":"}) = {}

Item == [type : Types, child : Ptrs, next : Ptrs, prev : Ptrs,
         string : Strings \cup {"none"}, valuestring : Strings \cup {"none"}]

\* The list that begins at an item, as a loop over next visits it: up to NULL,
\* or an item that is not allocated.
Chain(h, first) ==
    LET Visited[n \in 0 .. MaxItems] ==
            IF n = 0 THEN <<>>
            ELSE LET list == Visited[n - 1]
                     i == IF list = <<>> THEN first ELSE h[Last(list)].next
                 IN IF i \in DOMAIN h THEN Append(list, i) ELSE list
    IN Visited[MaxItems]
Members(h, i) == Chain(h, h[i].child)

\* All that hangs below or follows some items, these included.
Closed(h, S) == \A i \in S : {h[i].child, h[i].next} \cap DOMAIN h \subseteq S
Reached(h, firsts) ==
    {i \in DOMAIN h : \A S \in SUBSET DOMAIN h :
        (firsts \cap DOMAIN h \subseteq S /\ Closed(h, S)) => i \in S}
Tree(h, i) == {i} \cup Reached(h, {h[i].child})

\* String blocks the items own.
Blocks(h, S) == Cardinality({i \in S : h[i].string # "none"})
                    + Cardinality({i \in S : h[i].valuestring # "none"})

-----------------------------------------------------------------------------
Full(h) == DOMAIN h = Ids
Fresh(h) == CHOOSE i \in Ids : i \notin DOMAIN h
Plain(type) == [type |-> type, child |-> NULL, next |-> NULL, prev |-> NULL,
                string |-> "none", valuestring |-> "none"]
New_Item(h, item) == [i \in DOMAIN h \cup {Fresh(h)} |->
                          IF i \in DOMAIN h THEN h[i] ELSE item]

\* cJSON_Delete frees the items after this one too: its callers pass the head
\* of a list, an item that is in none, or NULL.
Delete(h, i) == [j \in DOMAIN h \ Reached(h, {i}) |-> h[j]]

add_item_to_array(h, array, item) ==
    LET child == h[array].child
        last == h[child].prev
    IN IF child = NULL
       THEN [h EXCEPT ![array].child = item, ![item].prev = item, ![item].next = NULL]
       ELSE IF last = NULL THEN h
       ELSE [h EXCEPT ![last].next = item, ![item].prev = last, ![child].prev = item]

SetKey(h, item, key) == [h EXCEPT ![item].string = key]

DetachItemViaPointer(h, parent, item) ==
    LET first == h[parent].child
        next  == h[item].next
        prev  == h[item].prev
        unlinked == [j \in DOMAIN h |->
            [h[j] EXCEPT
                !.next = IF j = prev /\ item # first THEN next ELSE @,
                !.prev = IF j = next \/ (j = first /\ item # first /\ next = NULL)
                         THEN prev ELSE @,
                !.child = IF j = parent /\ item = first THEN next ELSE @]]
    IN [unlinked EXCEPT ![item].prev = NULL, ![item].next = NULL]

\* The end of cJSON_InsertItemInArray: `after` is a child of the array.  Its
\* test for a corrupted item, one that is not the first and has no prev, never
\* holds in a list that is whole (WellLinked).
InsertBefore(h, array, after, newitem) ==
    LET prev == h[after].prev
        placed == [h EXCEPT ![newitem].next = after, ![newitem].prev = prev,
                            ![after].prev = newitem]
    IN IF after = h[array].child THEN [placed EXCEPT ![array].child = newitem]
       ELSE [placed EXCEPT ![prev].next = newitem]
InsertItemInArray(h, array, which, newitem) ==
    IF which > Len(Members(h, array)) THEN add_item_to_array(h, array, newitem)
    ELSE InsertBefore(h, array, Members(h, array)[which], newitem)

\* Before the item that was replaced is deleted.
ReplaceItemViaPointer(h, parent, item, replacement) ==
    LET next  == h[item].next
        first == h[parent].child
        prev  == IF item = first /\ h[item].prev = item THEN replacement ELSE h[item].prev
        placed == [j \in DOMAIN h |->
            [h[j] EXCEPT
                !.next = IF j = prev /\ item # first THEN replacement ELSE @,
                !.prev = IF j = next \/ (j = first /\ item # first /\ next = NULL)
                         THEN replacement ELSE @,
                !.child = IF j = parent /\ item = first THEN replacement ELSE @]]
    IN [placed EXCEPT ![replacement].next = next, ![replacement].prev = prev,
                      ![item].next = NULL, ![item].prev = NULL]

\* cJSON_Duplicate with recurse: a copy of the tree that is in no list.
Copies(h, item) == CHOOSE f \in [Tree(h, item) -> Ids \ DOMAIN h] : IsInjective(f)
Duplicate(h, item) ==
    LET copy == Copies(h, item)
        To(p) == IF p = NULL THEN NULL ELSE copy[p]
        Beside(j, p) == IF j = item THEN NULL ELSE To(p)
        Copied(j) == [h[j] EXCEPT !.child = To(@), !.next = Beside(j, @),
                                  !.prev = Beside(j, @)]
    IN [i \in DOMAIN h \cup {copy[j] : j \in Tree(h, item)} |->
           IF i \in DOMAIN h THEN h[i]
           ELSE Copied(CHOOSE j \in Tree(h, item) : copy[j] = i)]

-----------------------------------------------------------------------------
\* get_object_item without regard to case: NULL or the first child whose key
\* compares equal (case_insensitive_strcmp; no key equals nothing).
SameKey(s, t) == "none" \notin {s, t} /\ Lower[s] = Lower[t]
get_object_item_by_case(h, object, name) ==    \* mutant: as case_sensitive
    LET Current[n \in 0 .. MaxItems] ==
            IF n = 0 THEN h[object].child
            ELSE LET i == Current[n - 1]
                 IN IF i = NULL \/ h[i].string \in {"none", name} THEN i ELSE h[i].next
        found == Current[MaxItems]
    IN IF found = NULL \/ h[found].string = "none" THEN NULL ELSE found
get_object_item(h, object, name) ==
    LET Current[n \in 0 .. MaxItems] ==
            IF n = 0 THEN h[object].child
            ELSE LET i == Current[n - 1]
                 IN IF i = NULL \/ SameKey(name, h[i].string) THEN i ELSE h[i].next
    IN Current[MaxItems]

\* print_array, print_object: the tokens of the text of every item, without its
\* layout, given the text `below` of its children.  A key that is missing prints
\* as an empty string.
print_items(h, below) ==
    [i \in DOMAIN h |->
        LET key(j) == <<IF h[j].string = "none" THEN "" ELSE h[j].string, ":">>
            one(j) == (IF h[i].type = "object" THEN key(j) ELSE <<>>) \o below[j]
            all == FlattenSeq([k \in 1 .. Len(Members(h, i)) |->
                       (IF k = 1 THEN <<>> ELSE <<",">>) \o one(Members(h, i)[k])])
        IN CASE h[i].type = "string" -> <<h[i].valuestring>>
             [] h[i].type = "array"  -> <<"[">> \o all \o <<"]">>
             [] h[i].type = "object" -> <<"{">> \o all \o <<"}">>
             [] OTHER                -> <<h[i].type>>]

\* print_value: of items that hang no deeper than there are items.
print_value(h, item) ==
    LET Text[n \in 0 .. MaxItems] ==
            IF n = 0 THEN [i \in DOMAIN h |-> <<>>] ELSE print_items(h, Text[n - 1])
    IN Text[MaxItems][item]
=============================================================================
