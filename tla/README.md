# cJSON in TLA+

A TLA+ model of the cJSON library (`src/cJSON.c`, `src/cJSON.h` and
`src/cJSON_Utils.c`, version 1.5.x), checked with TLC and, for the item structure, the
parser, the printer, copying, sorting and what works on texts, proved with TLAPS. Line
numbers refer to `src/cJSON.c` unless a file is named; `Utils` is `src/cJSON_Utils.c`.

Sections: 1 the system, 2 the modules and the code they stand for, 3 the runs,
4 the proofs, 5 disagreements between the code and its documents, 6 what is not
modelled, 7 the plan.

## 1. The system

cJSON is a sequential C library. A program parses a text into a tree of *items*
(`struct cJSON`), builds and changes trees, and prints them. All state is in
the items, in two small buffers that live during one call (`parse_buffer`,
`printbuffer`), and in two globals (`global_error`, `global_hooks`). Nothing
blocks and nothing runs concurrently inside the library; what makes it hard is
pointers, ownership, memory that runs out in the middle of a call, buffers that
are measured before they are written, and long sequences of legal calls.

| component | state | operations | what makes it correct |
|---|---|---|---|
| Item lists and trees (192-226, 1701-2085) | `next`, `prev`, `child`, `string`, the flags of `type`; who holds an item | create, add, add reference, detach, delete, insert, replace, look up | lists doubly linked, one holder per item, nothing dangles, loops and deletions end, nothing leaks; a name is freed exactly if it is a copy; calls act on an ordered forest as described |
| Constructors (2088-2356) | a new item, or an array of them | `cJSON_Create...` | all or nothing |
| Parser (941-1057, 1190-1242, 1323-1414, 1501-1581) | offset, depth, the frames' list heads, the blocks allocated so far | `cJSON_ParseWithOpts` | accepts the grammar, reads inside the text, bounds the C stack, keeps nothing on failure, returns |
| Error pointer (62-72) | `global_error` | set by a parse, read by `cJSON_GetErrorPtr` | points at the error of the last call, into its text |
| Printer and print buffer (347-449, 1067-1320, 1417-1475, 1588-1699) | buffer, length, offset, depth | `cJSON_Print`, `...Unformatted`, `...Buffered`, `...Preallocated` | writes inside the buffer, delivers the text of the tree, gives back all memory on failure (but for a `realloc` that fails, section 5) |
| String codec (517-924) | reading and writing positions, the block for the output | escape and quote, find the closing quote, decode, UTF-16 to UTF-8 | the sizes counted beforehand cover what is written; decoding after encoding is the identity; what stands for no bytes is refused |
| Numbers (241-326, 452-515) | none | `strtod`, `sprintf`, saturation of `valueint` | value kept, `valueint` within `int` |
| Allocation hooks (136-189) | `global_hooks` | `cJSON_InitHooks` | `realloc` used only with `malloc` and `free` |
| Duplicate (2359-2436) | the copy so far, at every level of the recursion | `cJSON_Duplicate` | the copy reads like the original and shares nothing that is freed twice; all or nothing |
| Compare, predicates (2508-2731) | none | `cJSON_Compare`, `cJSON_Is...` | comparison ignores the order of members |
| Minify (2438-2506) | a reading and a writing position in one text | `cJSON_Minify` | blanks and comments go, strings stay, the writer never overtakes the reader |
| Sorting (Utils 460-577) | the lists being split and merged, `next` and `prev` | `cJSONUtils_SortObject`, and every comparison and generation of patches | keeps all members, orders them, links them both ways, returns |
| JSON pointer (Utils 101-457) | none | find, follow, detach | a pointer that was found leads back to its item |
| JSON patch (Utils 579-1276) | the document, which sorting and patches change | compare, apply, generate | RFC 6902; a generated list applied gives the target; a failure keeps the rest |
| Merge patch (Utils 1288-1443) | the target | apply, generate | RFC 7396; a generated patch merged gives the target |

How they meet: the parser allocates items and links them itself, without the
list functions; the printer only reads them. `cJSON_Delete` (204-226) is shared:
the parser calls it on a list head when a frame fails. `cJSON_Utils.c` works
on items through the public functions and, in places, on the pointers directly.
The hooks are read by all. Comparing and generating patches sort the
documents they are given, so that a function that reads leaves links behind for one
that writes. The hazards that follow from this, each with its line
and the properties about it, are listed in `PROJECT.json`.

## 2. The modules

| module | stands for | lines it models |
|---|---|---|
| `ItemHeap` | every function that links, unlinks, names or frees items | 192-226, 1701-2085, constructors' structure, macros of cJSON.h:238-244 |
| `Forest` | what those functions promise: a forest of ordered, named nodes | README.md:221-235, header comments |
| `ItemHeapForest` | the refinement mapping from `ItemHeap` to `Forest` | - |
| `ItemHeapProofs` | theorems: the links of `ItemHeap` are sound, nothing leaks, members have names, nothing crashes | - |
| `ItemHeapForestProofs` | theorem: `ItemHeap` implements `Forest` | - |
| `Parser` | one call of `cJSON_ParseWithOpts` and the descent below it | 941-1057, 1190-1242, 1323-1414, 1501-1581 |
| `ParserProofs` | theorems about `Parser` | - |
| `ParserGrammar` | which texts are values, by recursion on the text, independent of `Parser` | - |
| `Printer` | one call of any of the four print functions, with `ensure` and `update_offset` | 347-449, 1067-1320, 1417-1475, 1588-1699 |
| `PrinterProofs` | theorems about `Printer` | - |
| `PrinterText` | the text of a tree, by recursion on the tree | - |
| `SortList` | `sort_list`, `sort_object`, loop turn by loop turn | Utils 73-99, 460-577 |
| `Duplicate` | array constructors and `cJSON_Duplicate`, allocation by allocation; extends `ItemHeap` | 2215-2436 |
| `CopySort` | a program that makes or copies a structure and sorts an object of the copy; composes `Duplicate` and `SortList` | - |
| `CopySortProofs` | theorems: what is made is one tree, linked both ways; a failure leaves nothing; the original is kept | - |
| `MadeProofs` | theorems: a copy says what the original says, an array holds its numbers | - |
| `SortProofs` | theorem: the sort keeps, orders and links all members | - |
| `JsonTree` | trees without links, the two comparisons, sorting as a whole | 2608-2731, Utils 460-665 |
| `JsonPointer` | pointers, indices, following, finding, detaching | Utils 101-457 |
| `JsonPatch` | a program that compares, patches and merges a document | Utils 667-1443 |
| `JsonPatchRFC` | RFC 6901, 6902 and 7396 on what a tree means; the properties | - |
| `StringCodec` | `print_string_ptr`, `parse_string`, `utf16_literal_to_utf8`, `parse_hex4` | 517-924 |
| `Minify` | `cJSON_Minify` | 2438-2506 |
| `TextPipeline` | a string printed, minified and parsed; composes `StringCodec` and `Minify` | - |
| `TextMeaning` | what the three functions must do, by definitions that look at whole comments, strings and escapes | - |
| `TextProofs` | theorems about `TextPipeline` | - |
| `Bits` | `&` and `\|` of C | - |
| `MCItemHeap`, `MCParser`, `MCPrinter`, `MCCopySort`, `MCJsonPatch`, `MCText` | the instances TLC checks | - |

### ItemHeap

An item is an address. `next`, `prev`, `child` are functions from addresses to
addresses or `NULL`; `string` maps an address to `NULL` or to a name with the
truth about it (`literal`: storage of the program; otherwise a copy on the heap).
The flags of `type` are sets: `isReference`, `stringIsConst`, `isObject`. `roots`
are the items the program still has to delete. One action is one call of the
API, and executes the whole function: `ReplaceItemInObject` renames the
replacement, looks the member up, relinks and deletes what was there.

`valuestring` is not modelled: it is owned or shared under the same flag as
`child` (215), so `child` shows what can go wrong. Freed blocks hold `NULL`
everywhere and are in no set, and may be allocated again.

The lists are read through closed sets rather than by recursion: `Chain(x)` is
the least set with x that is closed under `next`, `Reach(x)` the least one
closed under what `cJSON_Delete` follows. On a list these are what the loops
meet, and they can be reasoned about by a prover without induction.

`Forest` has no pointers: a node has a set of kids, and `after` says which
siblings come after it. That is an order without a first pointer, a last one, or
anything to walk along, so that `Attach` can say "before these siblings" where the
code relinks two neighbours. `ItemHeapForest` reads both out of the links: the kids
of an item are the chain from its `child`, what comes after an item is the chain
from its `next`, and a reference is a leaf, because what it shows belongs to
another item.

What the program is assumed to do (the contract, in the guards):

* `MayAdd`: it adds an item that it owns, to an item that is not below it, and
  never adds to, or detaches from, a reference (its children are another's);
* `MayFree`: it does not delete an item while a reference that stays shows it as
  its first child. README.md:184-189 leaves that to the program;
* it puts items without a name into arrays only, unless `"arrayop"` is in
  `Faults` (cJSON.h:197 allows it);
* containers and names are not NULL (`cJSON_AddItemToObject` with a NULL
  container renames the item and adds it nowhere; with a NULL name it clears a
  flag: neither is modelled). A NULL item is ignored by the code, with one
  exception that `"null"` in `Faults` switches on.

`"strdup"` in `Faults` lets the copy of a name fail. Allocating an *item* may
always fail; the call then does nothing, which is a stuttering step.

### Parser

The text is a sequence of byte *classes*, as many as the parser tells apart (a
blank stands for all of them, `letter` for the bytes that may follow a
backslash, `t t` for a literal, `bom` for three bytes). Offsets are those of the
code, from 0, and the terminator is part of the text. The C stack is `stack`,
one frame per active `parse_array` or `parse_object`; `heap` and `holds` are the
blocks that are allocated and the pointer that holds each: a list head of a
frame, the output of `parse_string`, the result, or a field of an item. Moving a
pointer, `Release` (`cJSON_Delete` of whatever a pointer holds) and the three
exits of a frame are as in the code, including the depth that failing frames
leave behind. Every allocation may fail.

Of a string the model has the first pass (where it ends) and whether the second
pass fails at an escape; which characters come out is `StringCodec`'s matter, and
the value of a number is nobody's: only how many bytes of it are taken counts.

### Printer

Blocks are sequences of bytes that are written, copied and measured: nothing is
assumed to be terminated. `Emit` is a call of `ensure` followed by the
caller's writes; its branches are the room being there, a refusal, growth with
`realloc` or by hand, and growth that fails. Scalars are runs of text of a given
size, escapes counted, so the sizes that `print_number` and `print_string_ptr`
ask for are in the model and the spelling is not. States in which the C code
would leave its memory (`overrun`, `overread`, `wildWrite`, `doubleFree`) are
values of `pc`.

### SortList, Duplicate and CopySort

`SortList` keeps the recursion of `sort_list` as a stack of activations with the
variables of the code; a step is one turn of a loop, the split, or a return.
`Duplicate` adds `valuestring` and `valueint` to `ItemHeap`'s state and gives
`cJSON_Duplicate` the same kind of stack; each of its three allocations may fail,
at every level. `Discard` is `cJSON_Delete` on what has been made so far. `Item` need not be
infinite: when no address is left an allocation can only fail (`MemoryLeft`).

`CopySort` puts them together the way cJSON_Utils.h:40-57 tells users of
`cJSONUtils_ApplyPatches` to work: on a duplicate. It begins with a structure out
of `Sources` (any list of up to five members, nested ones, references), copies it
with or without what lies below, and sorts an object of the copy. `next`, `prev`
and `child` are the same variables in all three modules.

Two variables are not the program's; no guard reads them. `before` is what was
there when the call began and, for a sort, who was whose `next`; `copied` says of
an item that `cJSON_Duplicate` made which item the activation was copying. So what
must come out is said item by item, without walking: a copy reads like the original
if every item `Alike` its original has copies for `next` and `child` exactly where
the original has some (`Mirrors`), and a sort is right if the members are the same
set, no link goes back to the first, and each link respects the order.

### JsonTree, JsonPointer, JsonPatch

Here an item is its kind, its value and the sequence of its kids; names are byte
sequences, because pointers take them apart. The trees forget the links, with one
exception that matters: `stale` says that the first kid's `prev` is not NULL,
which is what `sort_list` may leave (`SortedRight` and `FirstHasNoPrev` show when).
`Detach` of such a kid gives `Cyclic`, and what happens to such a document
afterwards is not followed; properties that a damaged document would break say so
with `Corrupt`.

A pointer is the sequence of what stands between its slashes. The functions are
operators that return the changed trees: `CompareJson` and `CreatePatches` return
both documents sorted as they leave them. The actions are the calls of a program:
one turn of the loop in `cJSONUtils_ApplyPatches`, or one whole call of the others.
A program applies what it generated either to the document itself, which
generating has sorted, or to a duplicate (`copied`).

### StringCodec, Minify and TextPipeline

Bytes are numbers and every loop turn is a step; positions are the code's
pointers. `room` is the size of the block that the first pass of `parse_string`
asks for. In `Minify` the reader and the writer share one text, and passing its
terminator is a state, `outside`. `TextPipeline` runs a string through
`print_string_ptr`, puts it between blanks and comments, has `cJSON_Minify` strip
it and `parse_string` read it; or gives one of the last two a text of its own. The
reference definitions of `TextMeaning` (`Strip`, `Meaning`) look for whole comments and whole
escapes in the remaining text and do arithmetic where the code masks bits.

## 3. The runs

| run | instance | shows |
|---|---|---|
| `ItemHeap` | 3 items with names `a` and `A` (equal without case) and references, 4 items with copies of one name and no reference; a program that keeps the contract, no failures | `NoLeak`, `NameFlagsAgree`, `MembersNamed`, `ImplementsForest` |
| `ItemHeapFaults` | 3 items, names that cannot be copied, NULL items, unnamed members | `TypeOK`, `DoublyLinked`, `OwnedOnce`, `NoDangling`, `Acyclic`, `KeepsHold` |
| `Parser` | 4500 texts, nesting limit 3, 4 bytes per number | the seven invariants and `Returns` |
| `Printer` | 299 trees, 12 buffer sizes, four ways to call, `INT_MAX` of 18 | the seven invariants |
| `CopySort` | all lists of up to three members with any of three letters or no name, of four with any of four letters, of five with any of three; nested lists, references, arrays | `MadeRight`, `FailureKeepsNothing`, `SortedRight`, `SourceKept`, `Returns` |
| `JsonPatch` | all pairs of 54 shallow and of 52 deeper documents; six documents with 1598 lists of one or two patches each; both modes of case | the seven invariants |
| `Text` | 1464 strings between four paddings, 19608 texts, 14234 literals | `MinifiedRight`, `DecodedRight`, `RoundTrip` |
| `Finding...` | see section 5 | one violation each |

**Bounds.** Three items are a list with a head, a middle and a tail, or a parent
with two children, or three levels: every branch of the linking functions (first,
last, in between, only one) is taken, and addresses are reused. Four items add a
list of three below a parent, which the order of elements needs. Addresses are
symmetric: no action compares them. Two names that differ in case are enough to
tell both kinds of lookup apart. The sound structure itself is proved for every
number of items (section 4).

The parser's texts are every text of up to five of `[ ] , t blank`, and two long
texts - an object with nested list, literals, an escape and an empty name; a list
with a byte order mark, a number beyond the limit and an empty object - cut off
anywhere or with any one byte exchanged for any other class. All limits are
crossed: nesting of 4 against 3, a number of 4 bytes against 4 and more.
`CJSON_NESTING_LIMIT` (1000) and 63 bytes only scale.

The printer's trees have every kind at the root, every pair of leaves in arrays
and objects, and lists three levels deep; the buffer sizes include 0, 1, one less
than a text needs and one more. `INT_MAX` 18 lies among the sizes, so clipping
(392) and refusal (398) both happen. `FirstSize` 8 replaces 256 so that `print`
has to grow. `IntMax` stands for every limit of an `int`; sums that would wrap a
`size_t` are out of reach, since `ensure` refuses more than `INT_MAX` first.

`CopySort`: the split of `sort_list` depends on the length alone and its merge on
pairs of names, so five members take every branch at two levels of recursion;
four letters, `A B a b`, make names that are the same, that differ only in case, and
on which the two orders disagree. Lists with a member without a name are in it too.
For copies, three levels and two siblings per level let an allocation fail before,
between and after kids at every level.

`JsonPatch`: lists of two and three members or elements, on both sides, cover every
meeting of two walks (first, second, both at the end, equal, unequal) and removal
of one and of two elements. The pointers are those that lead to an item, to the
end, past the end, nowhere, below a number, to `-`, with escapes, with a leading
zero, a letter in an index, an empty token, and without a slash in front. Two
patches in a row are tried where the first leaves something behind: a test that
sorts, a move that shifts. Indices have one digit, and the token `10` is past every
end; that `size_t` wraps is out of reach.

`Text`: five bytes hold a comment of either kind inside or outside a string, a
string with an escape, and every way not to close them. The code points are the
ends of each UTF-8 length and of each surrogate range, with upper and lower case
digits, alone and in pairs, cut off by the closing quote or the end of the text.

**Fairness.** `WF_vars(Next)` on the parser, and `WF` of `Making` and `Sorting` in
`CopySort`: a library call is sequential code that waits for nothing, so one that
can take a step takes it. Nothing is assumed of the program, which need not make
another call.

**Symmetry, constraints and deadlock.** Symmetry is used on invariants and on
`ImplementsForest`, which is a step property with no liveness part. The
constraint `FewerChoices` cuts states with four items that have a reference, a
literal name or the second name among them; to the forest a reference is a leaf like
any other, and names of all kinds occur with three items. Deadlock is checked in `ItemHeap`, where a
program can always go on; elsewhere the last call returns, or the program
crashed, and nothing follows.

What the properties say about the code:

* `DoublyLinked`, `OwnedOnce`, `NoDangling`, `Acyclic`, `NoLeak`: no sequence of
  calls makes `cJSON_Delete` free twice, miss an item, or never end - in the
  middle of which lie detaching heads, replacing the only element, and
  references into lists that change. `Acyclic` is about the links that own: every
  loop over `next` and every deletion ends. Printing and copying also follow the
  children of references, and are not meant (section 5).
* `KeepsHold`: no call loses an item that somebody held, whatever fails. Where a name
  cannot be copied, what the caller passed in still has its holder.
* `NameFlagsAgree`, `MembersNamed`: the flag `cJSON_StringIsConst` decides
  whether `cJSON_Delete` frees a name; it is right as long as names can be copied.
* `ImplementsForest`: each call changes the one list and the one name it is about.
* `ReadsInside`: unchecked reads (`buffer_at_offset(..)[0]`) are on the text or its
  terminator; they rely on the step back in `buffer_skip_whitespace` (953).
* `DepthBounded`, `HeldOnce`, `FailureKeepsNothing`, `ErrorReported`: as named, on
  every path, with memory running out at any allocation.
* `AcceptsLanguage`: a text is accepted exactly if the independent grammar of
  `ParserGrammar` has it, within the nesting limit, and the end that is reported is
  the end of the value.
* `StaysInside`, `BufferSound`: what is asked of `ensure` covers what is then
  written, and `update_offset` measures a terminated text. `StaysInside` has two
  exceptions, each tied to its cause: the write behind a `realloc` that failed, and
  one byte copied out of an empty buffer that is moved without `realloc`.
* `ResultIsText`, `Enough`: the result is the text of the tree, however often the
  buffer was moved; one byte more than text and terminator always suffices. (The
  header, cJSON.h:152, advises five.)
* `NothingLeft`, `FitsInt`: a call that fails leaves no block unless a `realloc`
  failed, the buffer is freed twice only below raw JSON without text, and no block
  is beyond `INT_MAX`.
* `MadeRight`, `FailureKeepsNothing` (of `CopySort`), `SourceKept`: whichever
  allocation fails, at whatever depth, everything is given back; a copy that is
  made is in no list and owns all of itself (`MadeWhole`), references turned into copies included,
  and reads like the original (`Mirrors`); an array has its numbers in their order
  (`Numbered`); neither its making nor its sorting writes to that.
* `SortedRight`, `Returns` (of `CopySort`): the sort is a permutation, ordered
  without regard to case, linked both ways but for the head, and ends.
* `AppliesAsRFC`, `FailureKeepsRest`: a patch does what the RFC says or fails with
  the document as it was, apart from the departures of section 5.
* `PatchesReachTarget`, `MergesAsRFC`, `MergeReachesTarget`: what is generated from
  one document to another leads there, by indices that earlier patches shift and
  lists that were sorted under way; a merge patch to no document at all is `null`.
* `PointersLead`, `ComparesRight`: two pairs of functions that must agree with each
  other, and do so by quite different walks.
* `MinifiedRight`, `DecodedRight`, `RoundTrip`: in-place work never runs past
  itself, sizes counted in a first pass cover the second, and the three functions
  agree on where strings end and what escapes mean.

Every property of a passing run has a mutant in `PROJECT.json`: an operator named
beside the original, marked "Mutant", that changes the code the way a plausible
bug would and makes that property fail.

## 4. The proofs

Every theorem holds for all values of the constants that satisfy the assumptions
of the module it is about: any number of items and names, any text, any tree, any
limits and sizes. TLC evaluates the assumptions on the instances of section 3.

| module | theorem | states |
|---|---|---|
| `ItemHeapProofs` | `LinksSound` | `LinkInv`: `TypeOK`, `DoublyLinked`, `OwnedOnce`, `NoDangling`, `Acyclic` |
| | `TypeCorrect`, `ListsSound`, `NothingDangles`, `LoopsAndDeletionsEnd` | its parts |
| | `FlagsRight` (1) | `NameFlagsAgree` |
| | `OneHolder` | `OwnedOnce` |
| | `NoCallLoses` | `KeepsHold` |
| | `NothingLeaks` (1) | `NoLeak` |
| | `EveryMemberNamed` (1, 2) | `MembersNamed` |
| | `NoCallCrashes` (3) | `NoNullDereference` |
| `ItemHeapForestProofs` | `CallsActOnForest` (1) | `ImplementsForest` |
| `ParserProofs` | `TypeCorrect`, `NeverReadsOutside`, `NestingLimited` | `TypeOK`, `ReadsInside`, `DepthBounded` |
| | `OnePointer`, `FailureFreesAll`, `ErrorPlaceRight` | `HeldOnce`, `FailureKeepsNothing`, `ErrorReported` |
| `PrinterProofs` | `TypeCorrect`, `OutsideOnlyAsKnown`, `BufferKept` | `TypeOK`, `StaysInside`, `BufferSound` |
| | `NothingLost`, `SizesFitInt` | `NothingLeft`, `FitsInt` |
| `CopySortProofs` | `SourceUntouched`, `FailureReleasesAll` | `SourceKept`, `FailureKeepsNothing` |
| | `MadeOwnsItself` | `MadeWhole`, a part of `MadeRight` |
| | `LinkedBothWays` | half made or whole, what is new is linked both ways until it is sorted |
| `MadeProofs` | `MakesRight` | `MadeRight` |
| | `CopiedNamesFlagged` | `NameFlagsAgree`, also of copies that are half made |
| | `ReadsOriginalOnly` | the activations of `cJSON_Duplicate` hold items of the original |
| `SortProofs` | `SortSorts` | `SortedRight` |
| `TextProofs` | `MinifyReadsOriginal` | `MinifiedInPlace`, part of `MinifiedRight` |
| | `DecodedFits`, `DecodingStaysInside` | `OutputFits`, `DecodesInside`, parts of `DecodedRight` |

The hypotheses, each with a run that shows what happens without it: (1) `"strdup"` is
not in `Faults`, that is, names can be copied (`FindingStrdupFlag`; the leaks of
section 5); (2) `"arrayop"` is not in `Faults`, the functions for arrays stay away
from objects; (3) `Faults` is empty (`FindingNullInsert`).

### The links

No part of `LinkInv` is inductive alone. Appending needs that the new item is on no
list (`DoublyLinked` on roots) and that its tree does not hold the container
(`MayAdd`), or a cycle would close; deleting needs that what is freed is held from
nowhere else (`OwnedOnce`), or something would dangle; and a freed address may
only be reused because nothing leads there (`NoDangling`).

Closed sets come first (`ChainClosed`, `ReachLeast`, `SubtreeFrom`, ...): whatever
contains an item and is closed contains its chain or its tree. From them, that the
tree below an item is cut off from the rest (`SubtreeIsolated`, `SiblingsOutside`,
`KidsOutside`). Then one lemma per effect: appending, unlinking, inserting,
exchanging and freeing keep the links sound; acyclicity has lemmas of its own for
the three ways a graph changes (`JoinAcyclic`, `LeafAcyclic`, `BypassAcyclic`). Then
one lemma per action, and `StepSound` puts the disjuncts of `Next` together.

`Acyclic` says that every non-empty set of items has one that none of them leads
to. Only finitely many items are ever allocated, so a loop over `next`, and a
deletion, never come back to an item and end. Links out of references are not among
these: `cJSON_Delete` stops at a reference, `print_array` (1421) and
`cJSON_Duplicate` (2402) do not.

`NameInv`, the invariant behind `FlagsRight`, adds that only allocated items have
names, so that an address that is reused starts without one.

### Ownership

`NoLeak` speaks of everything that is reached from the roots and is hard to follow
through a step. `Rooted` says the same one step back: every allocated item is a
root or some allocated item leads to it. A step disturbs that for the few items
whose links it moves: each action has a lemma that says which items keep their
holder (`HoldKept`, which is `NoCallLoses` and needs no hypothesis) and that what it
allocates gets one (`NewHeld`, where names can be copied). And because the links are acyclic, `Rooted` gives `NoLeak`
(`RootedNoLeak`: of the items out of reach one would have nobody that leads to it).
`MembersNamed` needs the same lemmas about what the chain of a list is after each
effect.

### The refinement

`CallsActOnForest` is the one theorem about order. `ItemHeapForestProofs` treats a
list as the set of what follows a link: `From(n, x)`, the least set with x that is
closed under n. Four lemmas say what one relinking does to all those sets at once,
however long they are: a list that is joined to another at its end (`Joined`),
an item taken out (`Taken`), one exchanged for another (`Swapped`), items that
are freed (`Pruned`). From them follow kids and `after` behind the step; the
parts about names and about the item that must not be put below itself come from
`MayAdd` and `UnderIsSubtree` (to be under a node in the forest is to be in the tree
that `cJSON_Delete` would free). Each action then maps to one action of `Forest` or
leaves it alone (renaming to the same name, calls that find nothing).

### Parser

Three invariants on top of each other, in `ParserProofs`. `PositionInv`: where the
offset is in each phase, so that what is read next lies in the text; the string
that is being decoded ends before the terminator, and the stack is as deep as
`depth` says. It needs facts about searches, which stop at the least position with a
property (`LeastFound`): numbers are well founded, and that is used in place of
induction. `PointerInv`: every block has one pointer to it; a pointer in an item
leads to a younger item, a frame's head to one younger than the item the frame
fills. Age is what makes `Release` right: the tree below what is freed is found by
closure, and an item whose pointer was freed cannot be its own ancestor.
`ReportInv`: nothing is reported before the call ends.

### Printer

`Inv` in `PrinterProofs` says which blocks exist in each phase (in the phases that
write it is one, and `buffer` is it), that `length` is the length of that block or 0
before the first write, and that a text that `update_offset` will measure has a
terminator behind the offset. The last is what `StaysInside` rests on, and what a
writer that asked `ensure` for one byte too few would break. The lemmas are about
texts that are copied, cut and written over each other, and one (`EmitStep`) about
`ensure` with the writes behind it.

### Copies

`CopyInv` in `CopySortProofs` is about `New`, the items that were allocated since the
call began. Nothing new leads out of them and what is free is blank (`NewInv`), so
relinking new items cannot touch the original: that is `SourceKept` for the copy and,
because the stack of `sort_list` holds new items only (`SortInv`), for the sort. For
the sort that takes one more fact: while a list is being split, `second` is behind
`current` in the same list, so it is not NULL when it is followed.

`MakingInv` is what `FailureKeepsNothing` needs. In the middle of a copy the new items
are a forest (`IsForest`) whose tops are the `newitem`s of the activations: each
activation has made an item and the kids before the one it waits for, and nobody
has linked its item yet. A tree can then be given up alone, because `cJSON_Delete`
frees what is below its top and, in a forest, nothing that is below another
(`ReachNew`, `BelowApart`); when the outermost activation fails, its tree is all there
is. There is one lemma for each thing the code does to a forest: a new top
(`ForestGrown`), a new element of an array (`ForestJoined`), a finished kid that is
appended to its parent (`ForestGiven`), a top that is deleted with all below it
(`ForestPruned`).

`OriginalInv` (`MadeProofs`) is about the other side. The original is closed under what
`cJSON_Duplicate` follows, so the activations never leave it. A new item gets the
flags of the original before it has a name (2378), and the name decides afterwards
whether that was right (2389-2404); `FlagInv` says that until then the two flags
agree.

`BackInv` says that new items are linked both ways, and that a first child has no
`prev`. `LinkKid` and `AddElement` are what could break it: the item they append has
no `prev` yet, because it is the top of a tree, and the list's last item has no
`next` yet, because it is where the list ends. It holds until a sort, and gives the
sort a list to begin with.

`MakesRight` follows the copy while it is made. `MirrorInv` says of *every* item made
so far what `Mirrors` says in the end, with three kinds of exceptions that the stack
names: `Ends`, the items behind which an activation will still link one; `Bare`, the
items of activations, whose children may be missing; `Begun`, the one item that has
no text or name yet. `MirrorKids` ties an activation to that: the kid it comes to next
is the original's first child as long as it has linked none, and afterwards what
follows the original of the last kid it linked, which is exactly the link its own
list is missing. `Callers` does so between activations: the inner one copies the
kid at which the outer one stands. When an activation runs out of kids, the original
has no next one either, its two exceptions go away, and it returns; when the
outermost returns, none are left. A failed activation takes its tree with it: what
is freed holds no item of the activations that wait, so their exceptions remain what
they were (`Survives`). For an array, `ElementsInv` says that each element is one more
than the one before, and that the last one is as many as were made.

### The sort

`SortSorts` uses that a list can be described without a sequence. `List(n, p, first,
A)`: A is what `first` leads to - every link out of A's items stays in A and comes
back by `prev`, none goes to `first`, and whatever contains `first` and is closed
under `next` contains A. `Path` is the same up to a `tail` whose `next` does not
count, which is the `result` list of a merge (Utils 509-544): its last link is left over
from before. Cutting a list in two (`ListCut`), taking its head off, putting one item
behind a path and hanging the rest behind it are one lemma each, for lists of any
length. Order is one number per item, `Weight`: the code of its name without case, or
0 for all where `SortedRight` asks for no order (a case sensitive sort, a member
without a name), so that the same invariant serves for both.

The invariant (`Shared`) divides the members of the object among the activations of
`sort_list`. Each one *holds* a part of its own, by where it is: the list it tests,
the list it walks to the middle of, the half that waits while the callee sorts the
other, or, in a merge, three parts, of which the result is ordered and not above what
is left of either list (`Merging`). A step of the innermost activation changes links
of its part only (`Elsewhere`, `CallersHold`), a split divides its part between
itself and a new activation, and a return gives the part back as a sorted list. The
first member's `prev` is in no `List`: that is the exception of `SortedRight`, seen
from the proof. `LeftAlone` is the invariant of the other half: if every member was
below the next one, the test (Utils 474-483) runs to the end of the list, nothing is ever
split, and no link is written.

### Texts

`MinifyInv` in `TextProofs` says that the writer is not ahead of the reader and that
the terminator is still where it was as long as the reader has not passed it. Every
turn of a loop `Advances`: the reader by up to two bytes, the writer by no more, and
what is not yet read stays.

`DecodedFits` is about two passes that may disagree. `parse_hex4` reads four bytes that
are no digits as 0 and steps over them (541), and a backslash may be among them: from
there on the second pass can take for an escape what the first took for the byte
behind one, and the other way round, to the point of taking the closing quote for an
escaped byte. What the two have in common is a count: `Counts(e, ..)` says that `e[i]`
of the escapes that the first pass met lie before i, and that no two of them touch. So
there are at most 1, 3 and 6 of them in any 2, 6 and 12 bytes, wherever those begin, and
the second pass writes 1, 3 and 4 bytes at most for that many (`WritesKeep`). The one
byte beyond the quote is paid for by the opening quote, which the code counts too.

### Assumptions

The assumptions of the modules: `NULL` is neither an item nor a name, `Lower` is
idempotent, `Faults` has the known members (`ItemHeap`); texts are sequences of the
classes, a number is at least one byte long (`Parser`); trees are made of the known
kinds, sizes are at most `IntMax`, the first block is not empty (`Printer`);
`NULL` is not what an array constructor keeps in its locals (`Duplicate`); counts are
numbers, and a structure the program may have has its kids and roots among its
own items, names or `NULL` for `string`, and references that show something
and names that are numbers, their codes, with the `tolower` of the sort for `Lower`
(`CopySort`); texts are bytes, and `parse_string` is called at one (`TextPipeline`).

### Only model-checked

* The liveness properties, `Returns` of the parser and of `CopySort`: no backend
  handles fairness with `ENABLED`.
* Properties that compare with a recursive definition, whose value for every input
  would need induction over data: `AcceptsLanguage`, `ResultIsText`,
  `Enough`, all of `JsonPatchRFC`, `RoundTrip` and what `MinifiedRight` and
  `DecodedRight` say of results. Where the state
  machine needs induction of its own, a least or greatest number or a least closed
  set is enough; a text of the reference definition's making has neither.

## 5. Where the code and its documents disagree

Shown by a run that ends in a violation:

* `FindingStrdupFlag`: adding an item under a name that cannot be copied clears
  `cJSON_StringIsConst` of its old, literal name (1864); `cJSON_Delete` would free
  the literal.
* `FindingNullInsert`: `cJSON_InsertItemInArray` with a NULL item writes through it
  (1999), against CHANGELOG.md:5.
* `FindingErrorPointer`: `cJSON_Parse(NULL)` leaves `cJSON_GetErrorPtr` at 0
  (1031), which cJSON.h:165 reserves for success.
* `FindingReallocFails`: a failed `realloc` in `ensure` goes unnoticed unless the
  offset is 0 (412): the next writer writes at address `offset`.
* `FindingSortPrev`: a sort that puts another member first leaves that member's
  `prev` as it was (Utils 501), against README.md:227. Detaching it later writes
  through that `prev` (1924): from `{"b":1,"a":2}` to `{"b":1}`, applying the
  generated patch to the first document itself makes `b` its own `next`. The
  repository's tests apply patches to duplicates, which are linked anew.

Met while modelling, and made visible by exceptions or by `Faults`:

* A name that cannot be copied leaks the item of `cJSON_AddItemReferenceToObject`
  (1910) and of the macros (cJSON.h:238-244), and leaves a replaced member without a
  name (2069). `NoLeak` and `MembersNamed` are therefore checked without `"strdup"`.
* A case sensitive lookup that reaches an unnamed member calls `strcmp` with NULL
  (1766). `Crash` in `ItemHeap`.
* `cJSON_AddItemReferenceToArray(a, a)`, with a list `a` that has members, puts a
  reference into `a` that shows the list it is in. Printing and duplicating follow
  `child` whatever `cJSON_IsReference` says (1421, 2402), and never end. `ItemHeap`
  reaches such structures; `Acyclic` does not speak of them, `Printer` has trees
  only, and no source in the run of `CopySort`, which checks `Returns`, has one.
* A raw item without `valuestring` frees the print buffer, which is freed again
  (1293, 1118, 1163). `pc = "doubleFree"`; `NothingLeft` says that only hand-built
  items get there.
* `cJSON_PrintBuffered` with a guess of 0 and no `realloc` copies one byte out of an
  empty block (428). Excepted in `StaysInside`.
* A failed `realloc` loses the old block (412, 1093), excepted in `NothingLeft`; what is
  then written through the NULL pointer is excepted in `StaysInside`.
* Patches (`Regular`, `FailureKeepsRest` in `JsonPatchRFC`): a pointer without a slash
  in front leads to the root (Utils 290); an empty index is 0 and `1a` is 59
  (Utils 265); decoding does not move what follows an escape (Utils 347-369); an
  add below a number does nothing and reports success (Utils 978-1002); the root
  can be neither moved nor copied to (status 9); remove, replace and move find
  members without regard to case in either mode (Utils 442); a replace without a
  value and a move to nowhere lose the old item (Utils 862-914).
* Pointers are written with `~1` for a tilde, and of a slash's escape only the
  second byte is written (Utils 138-177); `PointersLead` and `PatchesReachTarget`
  therefore except names with a tilde or a slash.
* The case sensitive sort tests with `strcmp` and merges without regard to case
  (Utils 513); generating a merge patch walks with `strcmp` in either mode
  (Utils 1385). Names on which the orders differ are excepted (`CaseAgrees`).
* With a name that occurs twice in an object, `cJSON_Compare` finds an object
  different from itself if the values differ. `ComparesRight` excepts repeated names.
* `cJSON_Minify` takes `/*/` for a closed comment, and runs past the terminator on a
  comment or a string that is not closed (2477-2495). Excepted in `MinifiedRight`.
* `\u` without four hexadecimal digits is read as 0 (541). Excepted in
  `DecodedRight`.

## 6. What is not modelled

* Values: doubles, `valueint`, the spelling of numbers, locales. `strtod` and
  `sprintf` are the C library's, and floating point is not for TLC.
* `cJSON_InitHooks` between calls, two threads on `global_error`: both are against
  what the header and README ask of a program.
* Memory that runs out in `cJSON_Utils.c`, but for the copy of a patch's value, which
  may fail: most allocations there are not checked at all.
* `overwrite_item`'s disregard of `cJSON_IsReference` and `cJSON_StringIsConst`
  (Utils 759): documents in `JsonPatch` own all of themselves.
* A replacement whose name is the very string that is passed in (2067): names are
  values in `ItemHeap`, not addresses.
* Type predicates other than the three that branch on kinds, and getters: one
  comparison each, no state.
* Tests, Unity, fuzzing and build files: read, not modelled.

## 7. The plan

Done: the item structure with its proof and the abstract forest; parser and printer
with their reference definitions; copying and sorting on the links; pointers,
patches and merge patches on trees; the string codec and minifying on bytes.

The proofs of the item structure, of its refinement of the forest, of the parser,
of the printer, of copying, of sorting and of the work on texts are complete as far as
section 4 says. What has no proof is what section 4 leaves to TLC: the liveness
properties, and the properties that compare with a recursive definition, among them
all of pointers and patches, which are recursive operators on trees. They would be
the next to be modelled on links, as sorting and copying are, so that they can be
reasoned about without recursion.
