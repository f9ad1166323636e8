------------------------------ MODULE SortList ------------------------------
(***************************************************************************)
(* sort_list and sort_object of cJSON_Utils.c:460-577: a merge sort of the *)
(* members of an object by relinking them.  The recursion is an explicit   *)
(* stack; one step is one turn of a loop, the split, or a return.          *)
(*                                                                         *)
(* A name is the code of its one character: only the order of names counts *)
(* here.                                                                   *)
(***************************************************************************)
EXTENDS Naturals, Sequences

CONSTANTS Item, NULL

VARIABLES
    next, prev,     \* item->next, item->prev
    string,         \* item->string: a record whose key is the name, or NULL
    sorting,        \* the activations of sort_list, the innermost first
    sorted          \* what the outermost activation has returned

sortVars == <<next, prev, sorting, sorted>>

ToLower(c) == IF c \in 65..90 THEN c + 32 ELSE c

(* Mutant: strcmp is always used. *)
LessBytes(x, y, sensitive) ==
    /\ string[x] # NULL /\ string[y] # NULL
    /\ string[x].key < string[y].key

(* compare_strings(x->string, y->string, sensitive) < 0: never for a name   *)
(* that is missing.                                                         *)
Less(x, y, sensitive) ==
    /\ string[x] # NULL /\ string[y] # NULL
    /\ IF sensitive THEN string[x].key < string[y].key
                    ELSE ToLower(string[x].key) < ToLower(string[y].key)

(* The variables of sort_list(list, sensitive) and where it stands. *)
Activation(list, sensitive) ==
    [at |-> "test", first |-> list, second |-> list, current |-> list,
     result |-> list, tail |-> NULL, sensitive |-> sensitive]

Running(at) == sorting # <<>> /\ Head(sorting).at = at

(* The innermost activation goes on with other values. *)
Continue(f) == sorting' = <<f>> \o Tail(sorting)

(* It returns list to the one that called it, which goes on with its second *)
(* half, or merges.                                                         *)
Returning(list) ==
    IF Len(sorting) = 1
    THEN sorting' = <<>> /\ sorted' = list
    ELSE LET caller == sorting[2]
             rest   == SubSeq(sorting, 3, Len(sorting))
         IN  /\ UNCHANGED sorted
             /\ sorting' =
                  IF caller.at = "first"
                  THEN <<Activation(caller.second, caller.sensitive),
                         [caller EXCEPT !.at = "second", !.first = list]>> \o rest
                  ELSE <<[caller EXCEPT !.at = "merge", !.second = list,
                                        !.result = NULL]>> \o rest

-----------------------------------------------------------------------------
SortInit == sorting = <<>> /\ sorted = NULL

(* sort_object calls sort_list on the members. *)
Sort(list, sensitive) ==
    /\ sorting = <<>>
    /\ sorting' = <<Activation(list, sensitive)>>
    /\ UNCHANGED <<next, prev, sorted>>

(* One comparison of the test whether the list is sorted. *)
TestSorted ==
    /\ Running("test")
    /\ LET f == Head(sorting)
       IN  IF f.current = NULL \/ next[f.current] = NULL
           THEN Returning(f.result)
           ELSE /\ IF Less(f.current, next[f.current], f.sensitive)
                   THEN Continue([f EXCEPT !.current = next[f.current]])
                   ELSE Continue([f EXCEPT !.at = "middle", !.current = f.first])
                /\ UNCHANGED sorted
    /\ UNCHANGED <<next, prev>>

(* second goes one item on while current goes two. *)
WalkTwo ==
    /\ Running("middle")
    /\ Head(sorting).current # NULL
    /\ LET f   == Head(sorting)
           one == next[f.current]
       IN  Continue([f EXCEPT !.second = next[f.second],
                              !.current = IF one = NULL THEN NULL ELSE next[one]])
    /\ UNCHANGED <<next, prev, sorted>>

(* second->prev->next = NULL; second->prev stays. *)
Cut(second) == [next EXCEPT ![prev[second]] = NULL]

Split ==
    /\ Running("middle")
    /\ Head(sorting).current = NULL
    /\ LET f == Head(sorting)
       IN  /\ next' = IF f.second # NULL /\ prev[f.second] # NULL
                      THEN Cut(f.second) ELSE next
           /\ sorting' = <<Activation(f.first, f.sensitive), [f EXCEPT !.at = "first"]>>
                             \o Tail(sorting)
    /\ UNCHANGED <<prev, sorted>>

(* tail->next = x; x->prev = tail *)
Follows(tail, x) ==
    /\ next' = [next EXCEPT ![tail] = x]
    /\ prev' = [prev EXCEPT ![x] = tail]

(* Mutant: the list that gave an item is not advanced. *)
Stays(x) == x

(* first = first->next, second = second->next *)
Advanced(x) == next[x]

(* The smaller head goes to the merged list: the first list's only when it  *)
(* is really smaller, and always without regard to case.                    *)
Merge ==
    /\ Running("merge")
    /\ LET f == Head(sorting)
           x == IF Less(f.first, f.second, FALSE) THEN f.first ELSE f.second
       IN  /\ f.first # NULL /\ f.second # NULL
           /\ IF f.result = NULL THEN UNCHANGED <<next, prev>> ELSE Follows(f.tail, x)
           /\ LET g == [f EXCEPT !.result = IF f.result = NULL THEN x ELSE f.result,
                                 !.tail = x]
              IN  IF x = f.first THEN Continue([g EXCEPT !.first = Advanced(x)])
                                 ELSE Continue([g EXCEPT !.second = Advanced(x)])
    /\ UNCHANGED sorted

(* One list is used up; the other is appended. *)
AppendRest ==
    /\ Running("merge")
    /\ LET f == Head(sorting)
       IN  /\ f.first = NULL \/ f.second = NULL
           /\ LET rest == IF f.first # NULL THEN f.first ELSE f.second
              IN  IF f.result = NULL
                  THEN Returning(rest) /\ UNCHANGED <<next, prev>>
                  ELSE /\ IF rest = NULL THEN UNCHANGED <<next, prev>>
                                         ELSE Follows(f.tail, rest)
                       /\ Returning(f.result)

SortStep == TestSorted \/ WalkTwo \/ Split \/ Merge \/ AppendRest
=============================================================================
