----------------------------- MODULE MadeProofs -----------------------------
(***************************************************************************)
(* What cJSON_Duplicate and the array constructors make is what was asked  *)
(* for, whatever they copy and however deep: a copy whose every item says  *)
(* what its original says and leads where that one leads, an array of the  *)
(* numbers in their order.  The proof follows the copy while it is made:   *)
(* what is linked already mirrors the original, and the activations of the *)
(* recursion know what is still missing.                                   *)
(***************************************************************************)
EXTENDS CopySortProofs

-----------------------------------------------------------------------------
(* What a copy is made from.                                                *)

(* The original leads nowhere else, and the copying reads nothing else.     *)
Reads(s, I) ==
    \A i \in 1 .. Len(s) : s[i].item \in I /\ s[i].child \in I \cup {NULL}

SourceInv ==
    \A x \in before.items :
        next[x] \in before.items \cup {NULL} /\ child[x] \in before.items \cup {NULL}

(* Before it has its name a copy has the flag of the original.              *)
FlagInv ==
    copying # <<>> /\ copying[1].at \in {"text", "name"} =>
        (copying[1].new \in stringIsConst <=> copying[1].item \in stringIsConst)

(* Names and flags are right as long as they stay, or go with their item.   *)
NamesRight == NameFlagsAgree /\ \A x \in Item \ live : string[x] = NULL

OriginalInv == SourceInv /\ Reads(copying, before.items) /\ FlagInv /\ NamesRight

LEMMA ReadsReplaced ==
    ASSUME NEW s \in Seq(DupFrame), s # <<>>, NEW I, Reads(s, I), NEW f \in DupFrame,
           f.item \in I, f.child \in I \cup {NULL}
    PROVE  Reads(<<f>> \o Tail(s), I) /\ (<<f>> \o Tail(s))[1] = f
  <1> DEFINE t == <<f>> \o Tail(s)
  <1>1. /\ Len(t) = Len(s) /\ t[1] = f /\ \A i \in 2 .. Len(s) : t[i] = s[i]
    BY Replaced
  <1> HIDE DEF t
  <1>2. 1 .. Len(s) = {1} \cup 2 .. Len(s)
    OBVIOUS
  <1>3. Reads(t, I)
    BY <1>1, <1>2 DEF Reads
  <1>4. QED BY <1>1, <1>3 DEF t

LEMMA ReadsPushed ==
    ASSUME NEW s \in Seq(DupFrame), NEW I, Reads(s, I), NEW f \in DupFrame,
           f.item \in I, f.child \in I \cup {NULL}
    PROVE  Reads(<<f>> \o s, I) /\ (<<f>> \o s)[1] = f
  <1> DEFINE t == <<f>> \o s
  <1>1. /\ Len(t) = Len(s) + 1 /\ t[1] = f /\ \A i \in 2 .. Len(s) + 1 : t[i] = s[i - 1]
    BY Pushed
  <1> HIDE DEF t
  <1>2. /\ 1 .. Len(s) + 1 = {1} \cup 2 .. Len(s) + 1
        /\ \A i \in 2 .. Len(s) + 1 : i - 1 \in 1 .. Len(s)
    OBVIOUS
  <1>3. Reads(t, I)
    BY <1>1, <1>2 DEF Reads
  <1>4. QED BY <1>1, <1>3 DEF t

LEMMA ReadsPopped ==
    ASSUME NEW s \in Seq(DupFrame), Len(s) > 1, NEW I, Reads(s, I), NEW f \in DupFrame,
           f.item \in I, f.child \in I \cup {NULL}
    PROVE  LET t == <<f>> \o SubSeq(s, 3, Len(s))
           IN  Reads(t, I) /\ t[1] = f
  <1> DEFINE t == <<f>> \o SubSeq(s, 3, Len(s))
  <1>1. /\ Len(t) = Len(s) - 1 /\ t[1] = f
        /\ \A i \in 2 .. Len(s) - 1 : t[i] = s[i + 1]
    BY Popped
  <1> HIDE DEF t
  <1>2. /\ 1 .. Len(s) - 1 = {1} \cup 2 .. Len(s) - 1
        /\ \A i \in 2 .. Len(s) - 1 : i + 1 \in 1 .. Len(s)
    OBVIOUS
  <1>3. Reads(t, I)
    BY <1>1, <1>2 DEF Reads
  <1>4. QED BY <1>1, <1>3 DEF t

(* The original stays as it is.                                             *)
LEMMA SourceStays ==
    ASSUME SourceInv, KeepsSource, UNCHANGED before
    PROVE  SourceInv'
  BY DEF SourceInv, KeepsSource

LEMMA NamesStay ==
    ASSUME NamesRight, UNCHANGED <<string, stringIsConst>>, live \subseteq live',
           live' \subseteq Item
    PROVE  NamesRight'
  <1>1. \A x \in Item \ live : string[x] = NULL
    BY DEF NamesRight
  <1>2. \A x \in live : string[x] # NULL => (x \in stringIsConst <=> string[x].literal)
    BY DEF NamesRight, NameFlagsAgree
  <1>3. NameFlagsAgree'
    BY <1>1, <1>2 DEF NameFlagsAgree
  <1>4. QED BY <1>1, <1>3 DEF NamesRight

LEMMA NamesDiscarded ==
    ASSUME NamesRight, TypeOK, NEW t, Discard(t)
    PROVE  NamesRight'
  <1>1. PICK F \in {Reach(t)} :
           Free(F, next, prev, child, string) /\ stringIsConst' = stringIsConst \ F
    BY DEF Discard
  <1>2. /\ live' = live \ F /\ live \subseteq Item
        /\ \A x \in Item : string'[x] = IF x \in F THEN NULL ELSE string[x]
    BY <1>1 DEF Free, TypeOK
  <1>3. \A x \in Item \ live' : string'[x] = NULL
    BY <1>2 DEF NamesRight
  <1>4. NameFlagsAgree'
    BY <1>1, <1>2 DEF NamesRight, NameFlagsAgree
  <1>5. QED BY <1>3, <1>4 DEF NamesRight

(* The activation that goes on as g reads the original only.                *)
LEMMA InnermostReads ==
    ASSUME CopyInv, OriginalInv, copying # <<>>
    PROVE  /\ copying[1].item \in before.items /\ copying[1].child \in before.items \cup {NULL}
           /\ child[copying[1].item] \in before.items \cup {NULL}
           /\ copying[1].item \in Item /\ copying[1].item \in live
           /\ Reads(copying, before.items) /\ NamesRight /\ SourceInv
           /\ TypeOK /\ live \subseteq Item
  <1>1. Len(copying) \in Nat \ {0}
    BY Innermost
  <1>2. 1 \in 1 .. Len(copying)
    BY <1>1
  <1>3. copying[1].item \in before.items /\ copying[1].child \in before.items \cup {NULL}
    BY <1>2 DEF OriginalInv, Reads
  <1>4. TypeOK /\ live \subseteq Item /\ before.items \subseteq live
    BY DEF CopyInv, TypesInv, TypeOK
  <1>5. child[copying[1].item] \in before.items \cup {NULL}
    BY <1>3 DEF OriginalInv, SourceInv
  <1>6. QED BY <1>3, <1>4, <1>5 DEF OriginalInv

LEMMA GoesOnReading ==
    ASSUME CopyInv, OriginalInv, copying # <<>>, NEW g \in DupFrame,
           copying' = <<g>> \o Tail(copying), UNCHANGED before, KeepsSource, NamesRight',
           g.item = copying[1].item, g.child \in before.items \cup {NULL},
           g.at \in {"text", "name"} =>
              (g.new \in stringIsConst' <=> g.item \in stringIsConst')
    PROVE  OriginalInv'
  <1>1. Reads(copying', before.items) /\ copying'[1] = g
    BY Innermost, InnermostReads, ReadsReplaced
  <1>2. SourceInv'
    BY SourceStays DEF OriginalInv
  <1>3. QED BY <1>1, <1>2 DEF OriginalInv, FlagInv

LEMMA NewItemReads ==
    ASSUME CopyInv, OriginalInv, NewItem, UNCHANGED before, KeepsSource
    PROVE  OriginalInv'
  <1> DEFINE x == Fresh
             f == copying[1]
             g == [f EXCEPT !.at = "text", !.new = x]
  <1>1. copying # <<>> /\ MemoryLeft
    BY DEF NewItem, At
  <1>2. f \in DupFrame /\ Head(copying) = f
    BY <1>1, Innermost
  <1>3. /\ f.item \in live /\ f.child \in before.items \cup {NULL} /\ NamesRight
        /\ TypeOK /\ live \subseteq Item
    BY <1>1, InnermostReads
  <1>4. /\ copying' = <<g>> \o Tail(copying) /\ live' = live \cup {x}
        /\ stringIsConst' = FlagCopied(x, f.item) /\ string' = string
    BY <1>2 DEF NewItem, Locals, Goto
  <1>5. x \in Item \ live
    BY <1>1, FreshFree
  <1> HIDE DEF x, f
  <1>6. g \in DupFrame /\ g.item = f.item /\ g.child = f.child /\ g.at = "text" /\ g.new = x
    BY <1>2, <1>5 DEF DupFrame
  <1> HIDE DEF g
  <1>7. NamesRight'
    BY <1>3, <1>4, <1>5 DEF NamesRight, NameFlagsAgree, FlagCopied
  <1>8. g.new \in stringIsConst' <=> g.item \in stringIsConst'
    BY <1>3, <1>4, <1>5, <1>6 DEF FlagCopied, TypeOK
  <1>9. g.item = copying[1].item /\ g.child \in before.items \cup {NULL}
    BY <1>3, <1>6 DEF f
  <1>10. QED BY <1>1, <1>4, <1>6, <1>7, <1>8, <1>9, GoesOnReading

LEMMA CopyTextReads ==
    ASSUME CopyInv, OriginalInv, CopyText, UNCHANGED before, KeepsSource
    PROVE  OriginalInv'
  <1> DEFINE f == copying[1]
             g == [f EXCEPT !.at = "name"]
  <1>1. copying # <<>> /\ Head(copying).at = "text"
    BY DEF CopyText, At
  <1>2. f \in DupFrame /\ Head(copying) = f
    BY <1>1, Innermost
  <1>3. f.child \in before.items \cup {NULL} /\ NamesRight /\ live \subseteq Item
    BY <1>1, InnermostReads
  <1>4. /\ copying' = <<g>> \o Tail(copying) /\ UNCHANGED <<live, string, stringIsConst>>
    BY <1>2 DEF CopyText, Locals, Goto, vars
  <1>5. f.new \in stringIsConst <=> f.item \in stringIsConst
    BY <1>1, <1>2 DEF OriginalInv, FlagInv
  <1>6. g \in DupFrame /\ g.item = f.item /\ g.child = f.child /\ g.new = f.new
    BY <1>2 DEF DupFrame
  <1>7. NamesRight'
    BY <1>3, <1>4, NamesStay
  <1>8. g.item = copying[1].item /\ g.child \in before.items \cup {NULL}
    BY <1>3, <1>6 DEF f
  <1> HIDE DEF f, g
  <1>9. g.new \in stringIsConst' <=> g.item \in stringIsConst'
    BY <1>4, <1>5, <1>6
  <1>10. QED BY <1>1, <1>4, <1>6, <1>7, <1>8, <1>9, GoesOnReading

(* A name that is a literal of the program is shared under the flag that    *)
(* says so; every other one is copied.                                      *)
LEMMA CopyNameReads ==
    ASSUME CopyInv, OriginalInv, CopyName, UNCHANGED before, KeepsSource
    PROVE  OriginalInv'
  <1> DEFINE f == copying[1]
             g == [f EXCEPT !.at = IF f.recurse THEN "kids" ELSE "return",
                            !.child = child[f.item]]
             name == IF string[f.item] = NULL \/ SharesName(f.item)
                     THEN string[f.item] ELSE Copy(string[f.item].key)
  <1>1. copying # <<>> /\ Head(copying).at = "name"
    BY DEF CopyName, At
  <1>2. f \in DupFrame /\ Head(copying) = f /\ f.new \in Item \cup {NULL}
        /\ Good(f, FALSE, New, next, child)
    BY <1>1, Innermost
  <1>3. /\ child[f.item] \in before.items \cup {NULL} /\ NamesRight /\ f.item \in live
        /\ live \subseteq Item /\ TypeOK
        /\ before.items \cup {NULL} \subseteq Item \cup {NULL}
    BY <1>1, InnermostReads DEF CopyInv, TypesInv
  <1>4. /\ copying' = <<g>> \o Tail(copying) /\ UNCHANGED <<live, stringIsConst>>
        /\ string' = [string EXCEPT ![f.new] = name]
    BY <1>2 DEF CopyName, Locals, Goto
  <1>5. f.new \in stringIsConst <=> f.item \in stringIsConst
    BY <1>1, <1>2 DEF OriginalInv, FlagInv
  <1>6. f.new \in live
    BY <1>1, <1>2 DEF Good, New
  <1>7. name # NULL => (f.new \in stringIsConst <=> name.literal)
    <2>1. string[f.item] # NULL => (f.item \in stringIsConst <=> string[f.item].literal)
      BY <1>3 DEF NamesRight, NameFlagsAgree
    <2>2. CASE string[f.item] = NULL \/ SharesName(f.item)
      BY <1>5, <2>1, <2>2
    <2>3. CASE ~(string[f.item] = NULL \/ SharesName(f.item))
      <3>1. name.literal = FALSE /\ f.item \notin stringIsConst
        BY <2>3 DEF Copy, SharesName
      <3>2. QED BY <1>5, <3>1
    <2>4. QED BY <2>2, <2>3
  <1>8. /\ g \in DupFrame /\ g.item = f.item /\ g.child = child[f.item]
        /\ g.at \in {"kids", "return"}
    <2> DEFINE k == child[f.item]
    <2>1. k \in Item \cup {NULL} /\ k \in before.items \cup {NULL}
      BY <1>3
    <2> HIDE DEF k
    <2>2. LET h == [f EXCEPT !.at = IF f.recurse THEN "kids" ELSE "return", !.child = k]
          IN  h \in DupFrame /\ h.item = f.item /\ h.child = k /\ h.at \in {"kids", "return"}
      BY <1>2, <2>1 DEF DupFrame
    <2>3. QED BY <2>2 DEF k
  <1>9. g.item = copying[1].item /\ g.child \in before.items \cup {NULL}
    BY <1>3, <1>8 DEF f
  <1> HIDE DEF f, g, name
  <1>10. NamesRight'
    <2>1. string'[f.new] = name /\ \A x \in Item \ {f.new} : string'[x] = string[x]
      BY <1>3, <1>4, <1>6 DEF TypeOK
    <2>2. NameFlagsAgree'
      BY <1>3, <1>4, <1>7, <2>1 DEF NamesRight, NameFlagsAgree
    <2>3. QED BY <1>3, <1>4, <1>6, <2>1, <2>2 DEF NamesRight
  <1>11. QED BY <1>1, <1>4, <1>8, <1>9, <1>10, GoesOnReading

LEMMA AllocationFailsReads ==
    ASSUME CopyInv, OriginalInv, AllocationFails, UNCHANGED before, KeepsSource
    PROVE  OriginalInv'
  <1> DEFINE f == copying[1]
             g == [f EXCEPT !.at = "return", !.new = NULL]
  <1>1. copying # <<>>
    BY DEF AllocationFails, At
  <1>2. f \in DupFrame /\ Head(copying) = f
    BY <1>1, Innermost
  <1>3. f.child \in before.items \cup {NULL} /\ NamesRight /\ live \subseteq Item /\ TypeOK
    BY <1>1, InnermostReads
  <1>4. /\ copying' = <<g>> \o Tail(copying)
        /\ UNCHANGED <<live, string, stringIsConst>> \/ Discard(f.new)
    BY <1>2 DEF AllocationFails, Locals, Goto
  <1>5. g \in DupFrame /\ g.item = f.item /\ g.child = f.child /\ g.at = "return"
    BY <1>2 DEF DupFrame
  <1>6. NamesRight'
    <2>1. CASE UNCHANGED <<live, string, stringIsConst>>
      BY <1>3, <2>1, NamesStay
    <2>2. CASE Discard(f.new)
      BY <1>3, <2>2, NamesDiscarded
    <2>3. QED BY <1>4, <2>1, <2>2
  <1>7. g.item = copying[1].item /\ g.child \in before.items \cup {NULL}
    BY <1>3, <1>5 DEF f
  <1> HIDE DEF f, g
  <1>8. QED BY <1>1, <1>4, <1>5, <1>6, <1>7, GoesOnReading

LEMMA NextKidReads ==
    ASSUME CopyInv, OriginalInv, NextKid, UNCHANGED before, KeepsSource
    PROVE  OriginalInv'
  <1> DEFINE f == copying[1]
             g == [f EXCEPT !.at = "return"]
             k == Call(f.child, TRUE)
  <1>1. copying # <<>>
    BY DEF NextKid, At
  <1>2. f \in DupFrame /\ Head(copying) = f /\ copying \in Seq(DupFrame)
        /\ f.child \in Item \cup {NULL}
    BY <1>1, Innermost
  <1>3. /\ f.child \in before.items \cup {NULL} /\ NamesRight /\ live \subseteq Item
        /\ Reads(copying, before.items)
    BY <1>1, InnermostReads
  <1>4. /\ copying' = IF f.child = NULL THEN <<g>> \o Tail(copying) ELSE <<k>> \o copying
        /\ UNCHANGED <<live, string, stringIsConst>>
    BY <1>2 DEF NextKid, Locals, vars
  <1>5. NamesRight'
    BY <1>3, <1>4, NamesStay
  <1>6. CASE f.child = NULL
    <2>1. g \in DupFrame /\ g.item = f.item /\ g.child = f.child /\ g.at = "return"
      BY <1>2 DEF DupFrame
    <2>2. g.item = copying[1].item /\ g.child \in before.items \cup {NULL}
      BY <1>3, <2>1 DEF f
    <2>3. copying' = <<g>> \o Tail(copying)
      BY <1>4, <1>6
    <2> HIDE DEF f, g
    <2>4. QED BY <1>1, <1>5, <2>1, <2>2, <2>3, GoesOnReading
  <1>7. CASE f.child # NULL
    <2>1. k \in DupFrame /\ k.item \in before.items /\ k.child = NULL /\ k.at = "new"
      BY <1>2, <1>3, <1>7 DEF DupFrame, Call
    <2>2. copying' = <<k>> \o copying
      BY <1>4, <1>7
    <2> HIDE DEF f, k
    <2>3. Reads(copying', before.items) /\ copying'[1] = k
      BY <1>2, <1>3, <2>1, <2>2, ReadsPushed
    <2>4. SourceInv'
      BY SourceStays DEF OriginalInv
    <2>5. QED BY <1>5, <2>1, <2>3, <2>4 DEF OriginalInv, FlagInv
  <1>8. QED BY <1>6, <1>7

LEMMA LinkKidReads ==
    ASSUME CopyInv, OriginalInv, LinkKid, UNCHANGED before, KeepsSource
    PROVE  OriginalInv'
  <1> DEFINE f == copying[2]
             x == copying[1].new
             k == next[f.child]
             g == [f EXCEPT !.last = x, !.child = k]
  <1>1. Len(copying) > 1 /\ copying # <<>>
    BY DEF LinkKid, At
  <1>2. f \in DupFrame /\ f.child \in Item /\ Good(f, TRUE, New, next, child)
    BY <1>1, Caller
  <1>3. /\ Head(copying) = copying[1] /\ copying \in Seq(DupFrame) /\ x \in Item \cup {NULL}
        /\ Len(copying) \in Nat
    BY <1>1, Innermost
  <1>4. NamesRight /\ live \subseteq Item /\ Reads(copying, before.items) /\ SourceInv /\ TypeOK
    BY <1>1, InnermostReads
  <1>5. f.item \in before.items /\ f.child \in before.items
    <2>1. 2 \in 1 .. Len(copying)
      BY <1>1, <1>3
    <2>2. QED BY <1>2, <1>4, <2>1, NullIsNoItem DEF Reads
  <1>6. k \in before.items \cup {NULL} /\ k \in Item \cup {NULL}
    BY <1>2, <1>4, <1>5 DEF SourceInv, TypeOK
  <1>7. f.at = "kids"
    BY <1>2 DEF Good
  <1>8. /\ copying' = <<g>> \o SubSeq(copying, 3, Len(copying))
        /\ UNCHANGED <<live, string, stringIsConst>>
    BY <1>3 DEF LinkKid, Locals, names
  <1> HIDE DEF k, x
  <1>9. /\ g \in DupFrame /\ g.item \in before.items /\ g.child \in before.items \cup {NULL}
        /\ g.at = "kids"
    BY <1>2, <1>3, <1>5, <1>6, <1>7 DEF DupFrame
  <1> HIDE DEF f, g
  <1>10. Reads(copying', before.items) /\ copying'[1] = g
    BY <1>1, <1>3, <1>4, <1>8, <1>9, ReadsPopped
  <1>11. NamesRight'
    BY <1>4, <1>8, NamesStay
  <1>12. SourceInv'
    BY <1>4, SourceStays
  <1>13. QED BY <1>9, <1>10, <1>11, <1>12 DEF OriginalInv, FlagInv

LEMMA KidFailsReads ==
    ASSUME CopyInv, OriginalInv, KidFails, UNCHANGED before, KeepsSource
    PROVE  OriginalInv'
  <1> DEFINE f == copying[2]
             g == [f EXCEPT !.at = "return", !.new = NULL]
  <1>1. Len(copying) > 1 /\ copying # <<>>
    BY DEF KidFails, At
  <1>2. f \in DupFrame
    BY <1>1, Caller
  <1>3. copying \in Seq(DupFrame) /\ Len(copying) \in Nat
    BY <1>1, Innermost
  <1>4. NamesRight /\ Reads(copying, before.items) /\ SourceInv /\ TypeOK
    BY <1>1, InnermostReads
  <1>5. f.item \in before.items /\ f.child \in before.items \cup {NULL}
    <2>1. 2 \in 1 .. Len(copying)
      BY <1>1, <1>3
    <2>2. QED BY <1>4, <2>1 DEF Reads
  <1>6. copying' = <<g>> \o SubSeq(copying, 3, Len(copying)) /\ Discard(f.new)
    BY DEF KidFails
  <1>7. /\ g \in DupFrame /\ g.item \in before.items /\ g.child \in before.items \cup {NULL}
        /\ g.at = "return"
    BY <1>2, <1>5 DEF DupFrame
  <1> HIDE DEF f, g
  <1>8. Reads(copying', before.items) /\ copying'[1] = g
    BY <1>1, <1>3, <1>4, <1>6, <1>7, ReadsPopped
  <1>9. NamesRight'
    BY <1>4, <1>6, NamesDiscarded
  <1>10. SourceInv'
    BY <1>4, SourceStays
  <1>11. QED BY <1>7, <1>8, <1>9, <1>10 DEF OriginalInv, FlagInv

(* The steps of the other functions: nothing is being copied after them.    *)
LEMMA OtherReads ==
    ASSUME OriginalInv, UNCHANGED before, KeepsSource, copying' = <<>>, NamesRight'
    PROVE  OriginalInv'
  <1>1. Reads(<<>>, before.items)
    BY DEF Reads
  <1>2. SourceInv'
    BY SourceStays DEF OriginalInv
  <1>3. QED BY <1>1, <1>2 DEF OriginalInv, FlagInv

LEMMA MakingReads ==
    ASSUME CopyInv, CopyInv', OriginalInv, Making, KeepsSource
    PROVE  OriginalInv'
  <1>1. MakeStep /\ UNCHANGED before
    BY DEF Making
  <1>2. NamesRight /\ TypeOK /\ live' \subseteq Item
    BY DEF OriginalInv, CopyInv, TypesInv, TypeOK
  <1>3. building # NULL => copying = <<>>
    BY DEF CopyInv, CallInv
  <1>4. CASE AddElement
    <2>1. copying' = <<>> /\ live \subseteq live' /\ UNCHANGED <<string, stringIsConst>>
      BY <1>3, <1>4 DEF AddElement, names
    <2>2. QED BY <1>1, <1>2, <2>1, NamesStay, OtherReads
  <1>5. CASE AddElementFails
    <2>1. copying' = <<>> /\ Discard(building.array)
      BY <1>3, <1>5 DEF AddElementFails
    <2>2. QED BY <1>1, <1>2, <2>1, NamesDiscarded, OtherReads
  <1>6. CASE ArrayDone
    <2>1. copying' = <<>> /\ live \subseteq live' /\ UNCHANGED <<string, stringIsConst>>
      BY <1>3, <1>6 DEF ArrayDone, names
    <2>2. QED BY <1>1, <1>2, <2>1, NamesStay, OtherReads
  <1>7. CASE DuplicateDone
    <2>1. copying' = <<>> /\ live \subseteq live' /\ UNCHANGED <<string, stringIsConst>>
      BY <1>7 DEF DuplicateDone, names
    <2>2. QED BY <1>1, <1>2, <2>1, NamesStay, OtherReads
  <1>8. CASE NewItem
    BY <1>1, <1>8, NewItemReads
  <1>9. CASE CopyText
    BY <1>1, <1>9, CopyTextReads
  <1>10. CASE CopyName
    BY <1>1, <1>10, CopyNameReads
  <1>11. CASE AllocationFails
    BY <1>1, <1>11, AllocationFailsReads
  <1>12. CASE NextKid
    BY <1>1, <1>12, NextKidReads
  <1>13. CASE LinkKid
    BY <1>1, <1>13, LinkKidReads
  <1>14. CASE KidFails
    BY <1>1, <1>14, KidFailsReads
  <1>15. QED
    BY <1>1, <1>4, <1>5, <1>6, <1>7, <1>8, <1>9, <1>10, <1>11, <1>12, <1>13, <1>14 DEF MakeStep

(* A copy that begins finds all of the structure it copies within what is   *)
(* there.                                                                   *)
LEMMA CopyingReads ==
    ASSUME CopyInv, OriginalInv, NEW item \in Item, NEW recurse \in BOOLEAN,
           Copying(item, recurse)
    PROVE  OriginalInv'
  <1> DEFINE f == Call(item, recurse)
  <1>1. /\ item \in roots /\ copying' = <<f>> /\ before' = [before EXCEPT !.items = live]
        /\ UNCHANGED <<live, next, child, string, stringIsConst>>
    BY DEF Copying, Duplicate, vars
  <1>2. before'.items = live /\ item \in live /\ live \subseteq Item
    BY <1>1 DEF CopyInv, TypesInv, TypeOK
  <1>3. f.item = item /\ f.child = NULL /\ f.at = "new"
    BY DEF Call
  <1> HIDE DEF f
  <1>4. Len(<<f>>) = 1 /\ <<f>>[1] = f /\ \A i \in 1 .. Len(<<f>>) : i = 1
    OBVIOUS
  <1>5. Reads(copying, before.items)'
    BY <1>1, <1>2, <1>3, <1>4 DEF Reads
  <1>6. SourceInv'
    <2>1. \A x \in live : x \in before.items \/ x \in New
      BY DEF New
    <2>2. before.items \cup {NULL} \subseteq live \cup {NULL} /\ New \cup {NULL} \subseteq live \cup {NULL}
      BY DEF CopyInv, TypesInv, New
    <2>3. \A x \in live : next[x] \in live \cup {NULL} /\ child[x] \in live \cup {NULL}
      BY <2>1, <2>2 DEF OriginalInv, SourceInv, CopyInv, NewInv
    <2>4. QED BY <1>1, <1>2, <2>3 DEF SourceInv
  <1>7. FlagInv'
    BY <1>1, <1>3, <1>4 DEF FlagInv
  <1>8. NamesRight'
    BY <1>1, <1>2, NamesStay DEF OriginalInv
  <1>9. QED BY <1>5, <1>6, <1>7, <1>8 DEF OriginalInv

LEMMA NextOriginalInv ==
    ASSUME CopyInv, CopyInv', OriginalInv, [CopySortNext]_allVars, KeepsSource
    PROVE  OriginalInv'
  <1>1. NamesRight /\ live' \subseteq Item
    BY DEF OriginalInv, CopyInv, TypesInv, TypeOK
  <1>2. CASE \E count \in Count : MakeArray(count)
    <2>1. /\ copying' = <<>> /\ live \subseteq live'
          /\ UNCHANGED <<before, string, stringIsConst>>
      BY <1>2 DEF MakeArray, CreateArrayOf, names, CopyInv, CallInv, Idle
    <2>2. QED BY <1>1, <2>1, NamesStay, OtherReads
  <1>3. CASE \E item \in Item, recurse \in BOOLEAN : Copying(item, recurse)
    BY <1>3, CopyingReads
  <1>4. CASE Making
    BY <1>4, MakingReads
  <1>5. CASE \E object \in Item, sensitive \in BOOLEAN : SortObject(object, sensitive)
    <2>1. /\ copying' = <<>> /\ live' = live /\ UNCHANGED <<next, child, string, stringIsConst>>
          /\ before'.items = before.items
      BY <1>5 DEF SortObject, S!Sort, Idle, names, CopyInv, TypesInv
    <2>2. NamesRight'
      BY <1>1, <2>1, NamesStay
    <2>3. SourceInv'
      BY <2>1 DEF OriginalInv, SourceInv
    <2>4. Reads(<<>>, before'.items)
      BY DEF Reads
    <2>5. QED BY <2>1, <2>2, <2>3, <2>4 DEF OriginalInv, FlagInv
  <1>6. CASE Sorting
    <2>1. sorting # <<>>
      BY <1>6 DEF Sorting, S!SortStep, S!TestSorted, S!WalkTwo, S!Split, S!Merge, S!AppendRest,
                  S!Running
    <2>2. copying = <<>>
      BY <2>1 DEF CopyInv, CallInv
    <2>3. /\ copying' = <<>> /\ live' = live /\ UNCHANGED <<before, string, stringIsConst>>
      BY <1>6, <2>2 DEF Sorting, names
    <2>4. QED BY <1>1, <2>3, NamesStay, OtherReads
  <1>7. CASE UNCHANGED allVars
    <2>1. UNCHANGED <<live, next, child, string, stringIsConst, copying, before>>
      BY <1>7 DEF allVars, dupVars, vars
    <2>2. QED
      BY <2>1 DEF OriginalInv, SourceInv, Reads, FlagInv, NamesRight, NameFlagsAgree
  <1>8. QED BY <1>2, <1>3, <1>4, <1>5, <1>6, <1>7 DEF CopySortNext

LEMMA InitOriginalInv ==
    ASSUME CopySortInit
    PROVE  OriginalInv
  <1>1. PICK s \in Sources :
           /\ live = s.items
           /\ Link(s.kids)
           /\ child = [x \in Item |-> IF x \in DOMAIN s.reference
                                      THEN s.kids[s.reference[x]][1]
                                      ELSE IF s.kids[x] = <<>> THEN NULL ELSE s.kids[x][1]]
           /\ string = [x \in Item |-> IF x \in s.items THEN s.string[x] ELSE NULL]
           /\ stringIsConst = {x \in s.items : s.string[x] # NULL /\ s.string[x].literal}
    BY DEF CopySortInit
  <1>2. copying = <<>> /\ before.items = live
    BY DEF CopySortInit
  <1> DEFINE items == s.items
             kids == s.kids
             reference == s.reference
  <1>3. /\ items \subseteq Item /\ kids \in [Item -> Seq(items)]
        /\ DOMAIN reference \subseteq items
        /\ \A x \in DOMAIN reference :
              reference[x] \in items /\ kids[reference[x]] # <<>>
    BY SourcesAreStructures
  <1>4. /\ live = items /\ Link(kids)
        /\ child = [x \in Item |-> IF x \in DOMAIN reference THEN kids[reference[x]][1]
                                   ELSE IF kids[x] = <<>> THEN NULL ELSE kids[x][1]]
    BY <1>1
  <1>5. NameFlagsAgree
    <2>1. \A x \in live : /\ string[x] = s.string[x]
                          /\ x \in stringIsConst <=> s.string[x] # NULL /\ s.string[x].literal
      BY <1>1, <1>3
    <2>2. QED BY <2>1 DEF NameFlagsAgree
  <1>6. \A x \in Item \ live : string[x] = NULL
    BY <1>1
  <1> HIDE DEF items, kids, reference
  <1>7. SourceInv
    <2>1. \A x \in Item : kids[x] # <<>> => kids[x][1] \in items
      <3>1. \A x \in Item : kids[x] \in Seq(items)
        BY <1>3
      <3>2. QED BY <3>1
    <2>2. \A x \in items : child[x] \in items \cup {NULL}
      BY <1>3, <1>4, <2>1
    <2>3. \A x \in items : next[x] \in items \cup {NULL}
      BY <1>3, <1>4, LinkedWithin
    <2>4. QED BY <1>2, <1>4, <2>2, <2>3 DEF SourceInv
  <1>8. Reads(copying, before.items) /\ FlagInv
    BY <1>2 DEF Reads, FlagInv
  <1>9. QED BY <1>5, <1>6, <1>7, <1>8 DEF OriginalInv, NamesRight

LEMMA AlwaysOriginalInv == CopySortSpec => []OriginalInv
  <1>1. CopySortInit => OriginalInv
    BY InitOriginalInv
  <1>2. CopyInv /\ CopyInv' /\ OriginalInv /\ [CopySortNext]_allVars /\ [KeepsSource]_allVars
           => OriginalInv'
    <2> SUFFICES ASSUME CopyInv, CopyInv', OriginalInv, [CopySortNext]_allVars
                 PROVE  OriginalInv'
      OBVIOUS
    <2>1. KeepsSource
      BY NextCopyInv
    <2>2. QED BY <2>1, NextOriginalInv
  <1>3. QED BY <1>1, <1>2, AlwaysCopyInv, PTL DEF CopySortSpec

-----------------------------------------------------------------------------
(* What the copy says.                                                      *)

(* Of the stack s, from the activation `from' on: what they make, and what  *)
(* they link the next kid to.                                               *)
Under(s, from) == Rest(s, from) \cup {s[i].last : i \in from .. Len(s)}

(* What is still to be linked behind, or has no children yet, or no content.*)
Ends(s) == {s[1].new} \cup (IF s[1].at = "kids" THEN {s[1].last} ELSE {}) \cup Under(s, 2)
Bare(s) == {s[1].new} \cup Rest(s, 2)
Begun(s) == IF s[1].at \in {"text", "name"} THEN {s[1].new} ELSE {}

(* An item that was made mirrors its original, as far as that is done.      *)
MirrorItem(x) ==
    /\ copied[x] \in before.items
    /\ x \notin Begun(copying) => Alike(x, copied[x])
    /\ IsCopy(next[x], next[copied[x]]) \/ (next[x] = NULL /\ x \in Ends(copying))
    /\ IsCopy(child[x], child[copied[x]]) \/ (child[x] = NULL /\ x \in Bare(copying))

(* An activation f that copies kids: k is `copied'.                         *)
MirrorKids(f, n, c, k) ==
    /\ f.recurse /\ k[f.new] = f.item
    /\ f.child = IF f.last = NULL THEN c[f.item] ELSE n[k[f.last]]
    /\ f.last # NULL => c[f.new] # NULL

WaitingMirror(s, from, n, c, k) == \A i \in from .. Len(s) : MirrorKids(s[i], n, c, k)

(* The innermost activation.                                                *)
MirrorTop(f) ==
    /\ f.new # NULL => copied[f.new] = f.item
    /\ f.at \in {"text", "name"} =>
          /\ valueint[f.new] = valueint[f.item]
          /\ f.new \in isObject <=> f.item \in isObject
    /\ f.at = "name" => valuestring[f.new] = valuestring[f.item]
    /\ f.at = "kids" => MirrorKids(f, next, child, copied)
    /\ f.at = "return" /\ f.new # NULL =>
          IF f.recurse THEN IsCopy(child[f.new], child[f.item]) ELSE child[f.new] = NULL

(* Who called whom, down to the call of the program.                        *)
Callers(s, item, recurse) ==
    /\ s[Len(s)].item = item /\ s[Len(s)].recurse = recurse
    /\ \A i \in 2 .. Len(s) : s[i - 1].recurse /\ s[i - 1].item = s[i].child

MirrorInv ==
    copying # <<>> =>
        /\ \A x \in New : MirrorItem(x)
        /\ MirrorTop(copying[1])
        /\ WaitingMirror(copying, 2, next, child, copied)
        /\ Callers(copying, call.item, call.recurse)

MirrorsInv ==
    call.name = "copy" /\ copying = <<>> /\ made # NULL => Mirrors(call.item, call.recurse)

ValuesInv == valueint \in [Item -> Item \cup Nat]

-----------------------------------------------------------------------------
(* What an array says while it is built.                                    *)
ElementsInv ==
    building # NULL =>
        LET a == building.array
            l == building.last
        IN  /\ call.name = "array" /\ building.done + building.left = call.count
            /\ IF l = NULL THEN building.done = 0
               ELSE /\ building.done # 0 /\ child[a] # NULL /\ valueint[child[a]] = 1
                    /\ valueint[l] = building.done
            /\ \A x \in New \ {a} :
                  IF next[x] = NULL THEN x = l ELSE valueint[next[x]] = valueint[x] + 1

NumberedInv ==
    call.name = "array" /\ building = NULL /\ made # NULL => Numbered(made, call.count)

-----------------------------------------------------------------------------
(* Of the original nothing changes that is copied; what was made says what  *)
(* it is a copy of.                                                         *)
KeepsContent ==
    /\ \A y \in before.items :
          valueint'[y] = valueint[y] /\ (y \in isObject' <=> y \in isObject)
    /\ \A x \in New \cap New' : copied'[x] = copied[x]

(* An item that a step does not touch.                                      *)
Untouched(x) ==
    /\ next'[x] = next[x] /\ child'[x] = child[x] /\ string'[x] = string[x]
    /\ valuestring'[x] = valuestring[x] /\ valueint'[x] = valueint[x]
    /\ (x \in isObject' <=> x \in isObject)

(* An original stays alike.                                                 *)
LEMMA OriginalStays ==
    ASSUME KeepsSource, KeepsContent, NEW y \in before.items
    PROVE  Untouched(y)
  BY DEF KeepsSource, KeepsContent, Untouched

LEMMA AlikeStays ==
    ASSUME NEW x, NEW y, Untouched(x), Untouched(y), Alike(x, y)
    PROVE  /\ valueint'[x] = valueint'[y] /\ valuestring'[x] = valuestring'[y]
           /\ (x \in isObject' <=> y \in isObject')
           /\ (string'[y] = NULL => string'[x] = NULL)
           /\ (string'[y] # NULL => string'[x] # NULL /\ string'[x].key = string'[y].key)
  BY DEF Untouched, Alike

(* What is still to be done for an item.                                    *)
StaysOpen(x) ==
    /\ x \in Ends(copying) => x \in Ends(copying') \/ IsCopy(next[x], next[copied[x]])
    /\ x \in Bare(copying) => x \in Bare(copying') \/ IsCopy(child[x], child[copied[x]])
    /\ x \in Begun(copying) => x \in Begun(copying')

(* What mirrors its original and is not touched mirrors it still.           *)
LEMMA MirrorStays ==
    ASSUME CopyInv, CopyInv', KeepsSource, KeepsContent, UNCHANGED before,
           NEW x \in New, x \in New', Untouched(x), MirrorItem(x), StaysOpen(x)
    PROVE  MirrorItem(x)'
  <1> DEFINE y == copied[x]
  <1>1. y \in before.items /\ copied'[x] = y
    BY DEF MirrorItem, KeepsContent
  <1>2. Untouched(y)
    BY <1>1, OriginalStays
  <1>3. next[x] \in New \cup {NULL} /\ child[x] \in New \cup {NULL}
        /\ next'[x] \in New' \cup {NULL} /\ child'[x] \in New' \cup {NULL}
    BY DEF CopyInv, NewInv
  <1>4. next'[x] = next[x] /\ child'[x] = child[x] /\ next'[y] = next[y] /\ child'[y] = child[y]
    BY <1>2 DEF Untouched
  <1>5. x \notin Begun(copying) => Alike(x, y)
    BY DEF MirrorItem
  <1>6. /\ IsCopy(next[x], next[y]) \/ (next[x] = NULL /\ x \in Ends(copying'))
        /\ IsCopy(child[x], child[y]) \/ (child[x] = NULL /\ x \in Bare(copying'))
    BY DEF MirrorItem, StaysOpen
  <1> HIDE DEF y
  <1>7. ASSUME NEW z \in {next[x], child[x]}, z # NULL PROVE copied'[z] = copied[z]
    BY <1>3, <1>4, <1>7 DEF KeepsContent
  <1>8. ASSUME x \notin Begun(copying') PROVE Alike(x, copied[x])'
    <2>1. Alike(x, y)
      BY <1>5, <1>8 DEF StaysOpen
    <2>2. QED BY <1>1, <1>2, <2>1, AlikeStays DEF Alike
  <1>9. IsCopy(next[x], next[copied[x]])' \/ (next'[x] = NULL /\ x \in Ends(copying'))
    BY <1>1, <1>4, <1>6, <1>7 DEF IsCopy
  <1>10. IsCopy(child[x], child[copied[x]])' \/ (child'[x] = NULL /\ x \in Bare(copying'))
    BY <1>1, <1>4, <1>6, <1>7 DEF IsCopy
  <1>11. copied'[x] \in before'.items
    BY <1>1
  <1>12. QED BY <1>8, <1>9, <1>10, <1>11 DEF MirrorItem

(* An activation whose items survive.                                       *)
Survives(f) ==
    /\ f.item \in before.items /\ f.new \in New /\ f.new \in New'
    /\ f.last # NULL =>
          f.last \in New /\ f.last \in New' /\ copied[f.last] \in before.items
    /\ child[f.new] # NULL => child'[f.new] # NULL

LEMMA KidsStay ==
    ASSUME KeepsSource, KeepsContent, NEW f, MirrorKids(f, next, child, copied), Survives(f)
    PROVE  MirrorKids(f, next', child', copied')
  <1>1. copied'[f.new] = copied[f.new] /\ child'[f.item] = child[f.item]
    BY DEF KeepsContent, KeepsSource, Survives
  <1>2. CASE f.last = NULL
    BY <1>1, <1>2 DEF MirrorKids, Survives
  <1>3. CASE f.last # NULL
    <2>1. copied'[f.last] = copied[f.last] /\ next'[copied[f.last]] = next[copied[f.last]]
      BY <1>3 DEF KeepsContent, KeepsSource, Survives
    <2>2. QED BY <1>1, <1>3, <2>1 DEF MirrorKids, Survives
  <1>4. QED BY <1>2, <1>3

-----------------------------------------------------------------------------
(* Stacks.                                                                  *)

LEMMA ViewReplaced ==
    ASSUME NEW s \in Seq(DupFrame), s # <<>>, NEW g \in DupFrame, NEW t,
           t = <<g>> \o Tail(s)
    PROVE  /\ t # <<>> /\ t[1] = g /\ Len(t) = Len(s) /\ Len(s) \in Nat \ {0}
           /\ Under(t, 2) = Under(s, 2) /\ Rest(t, 2) = Rest(s, 2)
           /\ \A i \in 2 .. Len(s) : t[i] = s[i]
  <1>1. /\ t \in Seq(DupFrame) /\ Len(t) = Len(s) /\ t[1] = g
        /\ \A i \in 2 .. Len(s) : t[i] = s[i]
    BY Replaced
  <1>2. Len(s) \in Nat \ {0}
    OBVIOUS
  <1>3. t # <<>>
    BY <1>1, <1>2
  <1>4. Rest(t, 2) = Rest(s, 2)
    BY <1>1 DEF Rest
  <1>5. {t[i].last : i \in 2 .. Len(t)} = {s[i].last : i \in 2 .. Len(s)}
    BY <1>1
  <1>6. QED BY <1>1, <1>2, <1>3, <1>4, <1>5 DEF Under

LEMMA CallersReplaced ==
    ASSUME NEW s \in Seq(DupFrame), s # <<>>, NEW g \in DupFrame, NEW t,
           t = <<g>> \o Tail(s), NEW item, NEW recurse, Callers(s, item, recurse),
           g.item = s[1].item, g.recurse = s[1].recurse
    PROVE  Callers(t, item, recurse)
  <1>1. /\ t \in Seq(DupFrame) /\ Len(t) = Len(s) /\ t[1] = g
        /\ \A i \in 2 .. Len(s) : t[i] = s[i]
    BY Replaced
  <1>2. Len(s) \in Nat \ {0}
    OBVIOUS
  <1>3. ASSUME NEW i \in 1 .. Len(s) PROVE t[i].item = s[i].item /\ t[i].recurse = s[i].recurse
    <2>1. CASE i = 1
      BY <1>1, <2>1
    <2>2. CASE i # 1
      <3>1. i \in 2 .. Len(s)
        BY <1>2, <2>2
      <3>2. QED BY <1>1, <3>1
    <2>3. QED BY <2>1, <2>2
  <1>4. t[Len(t)].item = item /\ t[Len(t)].recurse = recurse
    <2>1. Len(s) \in 1 .. Len(s)
      BY <1>2
    <2>2. QED BY <1>1, <1>3, <2>1 DEF Callers
  <1>5. ASSUME NEW i \in 2 .. Len(t) PROVE t[i - 1].recurse /\ t[i - 1].item = t[i].child
    <2>1. i \in 2 .. Len(s) /\ i - 1 \in 1 .. Len(s)
      BY <1>1, <1>2
    <2>2. s[i - 1].recurse /\ s[i - 1].item = s[i].child
      BY <2>1 DEF Callers
    <2>3. QED BY <1>1, <1>3, <2>1, <2>2
  <1>6. QED BY <1>4, <1>5 DEF Callers

LEMMA ViewPushed ==
    ASSUME NEW s \in Seq(DupFrame), s # <<>>, NEW g \in DupFrame, NEW t, t = <<g>> \o s
    PROVE  /\ t # <<>> /\ t[1] = g
           /\ Under(t, 2) = {s[1].new, s[1].last} \cup Under(s, 2)
           /\ Rest(t, 2) = {s[1].new} \cup Rest(s, 2)
           /\ Len(t) = Len(s) + 1 /\ \A i \in 2 .. Len(s) + 1 : t[i] = s[i - 1]
  <1>1. /\ t \in Seq(DupFrame) /\ Len(t) = Len(s) + 1 /\ t[1] = g
        /\ \A i \in 2 .. Len(s) + 1 : t[i] = s[i - 1]
    BY Pushed
  <1> DEFINE l == Len(s)
  <1>2. l \in Nat \ {0}
    OBVIOUS
  <1> HIDE DEF l
  <1>3. Len(s) = l /\ Len(t) = l + 1
    BY <1>1 DEF l
  <1>4. t # <<>>
    BY <1>1, <1>2, <1>3
  <1>5. /\ \A i \in 2 .. l + 1 : i - 1 \in 1 .. l
        /\ \A i \in 1 .. l : i + 1 \in 2 .. l + 1 /\ (i + 1) - 1 = i
        /\ 1 .. l = {1} \cup 2 .. l
    BY <1>2
  <1>6. \A i \in 1 .. l : t[i + 1] = s[i]
    BY <1>1, <1>3, <1>5
  <1>7. Rest(t, 2) = Rest(s, 1) /\ Rest(s, 1) = {s[1].new} \cup Rest(s, 2)
    BY <1>1, <1>3, <1>5, <1>6 DEF Rest
  <1>8. {t[i].last : i \in 2 .. Len(t)} = {s[i].last : i \in 1 .. Len(s)}
        /\ {s[i].last : i \in 1 .. Len(s)} = {s[1].last} \cup {s[i].last : i \in 2 .. Len(s)}
    BY <1>1, <1>3, <1>5, <1>6
  <1>9. Under(t, 2) = {s[1].new, s[1].last} \cup Under(s, 2)
    BY <1>7, <1>8 DEF Under
  <1>10. QED BY <1>1, <1>4, <1>7, <1>9

LEMMA CallersPushed ==
    ASSUME NEW s \in Seq(DupFrame), s # <<>>, NEW g \in DupFrame, NEW t, t = <<g>> \o s,
           NEW item, NEW recurse, Callers(s, item, recurse), g.recurse, g.item = s[1].child
    PROVE  Callers(t, item, recurse)
  <1>1. /\ Len(t) = Len(s) + 1 /\ t[1] = g /\ \A i \in 2 .. Len(s) + 1 : t[i] = s[i - 1]
    BY Pushed
  <1> DEFINE l == Len(s)
  <1>2. l \in Nat \ {0}
    OBVIOUS
  <1> HIDE DEF l
  <1>3. Len(s) = l /\ Len(t) = l + 1
    BY <1>1 DEF l
  <1>4. \A i \in 1 .. l : t[i + 1] = s[i]
    <2>1. \A i \in 1 .. l : i + 1 \in 2 .. l + 1 /\ (i + 1) - 1 = i
      BY <1>2
    <2>2. QED BY <1>1, <1>3, <2>1
  <1>5. t[Len(t)].item = item /\ t[Len(t)].recurse = recurse
    <2>1. l \in 1 .. l
      BY <1>2
    <2>2. t[l + 1] = s[l]
      BY <1>4, <2>1
    <2>3. QED BY <1>3, <2>2 DEF Callers
  <1>6. ASSUME NEW i \in 2 .. l + 1 PROVE t[i - 1].recurse /\ t[i - 1].item = t[i].child
    <2>1. CASE i = 2
      BY <1>1, <1>2, <1>3, <2>1
    <2>2. CASE i # 2
      <3> DEFINE j == i - 1
      <3>1. j \in 2 .. l /\ j - 1 \in 1 .. l /\ (j - 1) + 1 = j /\ j \in 1 .. l /\ j + 1 = i
        BY <1>2, <2>2
      <3> HIDE DEF j
      <3>2. s[j - 1].recurse /\ s[j - 1].item = s[j].child
        BY <1>3, <3>1 DEF Callers
      <3>3. t[j] = s[j - 1] /\ t[i] = s[j]
        BY <1>4, <3>1
      <3>4. QED BY <3>2, <3>3 DEF j
    <2>3. QED BY <2>1, <2>2
  <1>7. QED BY <1>3, <1>5, <1>6 DEF Callers

LEMMA RestPopped ==
    ASSUME NEW s \in Seq(DupFrame), Len(s) > 1, NEW g \in DupFrame, NEW t,
           t = <<g>> \o SubSeq(s, 3, Len(s))
    PROVE  Under(t, 2) = Under(s, 3) /\ Rest(t, 2) = Rest(s, 3)
  <1>1. /\ t \in Seq(DupFrame) /\ Len(t) = Len(s) - 1 /\ t[1] = g
        /\ \A i \in 2 .. Len(s) - 1 : t[i] = s[i + 1]
    BY Popped
  <1> DEFINE l == Len(s)
  <1>2. l \in Nat /\ l > 1
    OBVIOUS
  <1> HIDE DEF l
  <1>3. Len(s) = l /\ Len(t) = l - 1
    BY <1>1 DEF l
  <1>4. /\ \A i \in 2 .. l - 1 : i + 1 \in 3 .. l
        /\ \A i \in 3 .. l : i - 1 \in 2 .. l - 1 /\ (i - 1) + 1 = i
        /\ 2 .. l = {2} \cup 3 .. l
    BY <1>2
  <1>5. \A i \in 3 .. l : t[i - 1] = s[i]
    BY <1>1, <1>3, <1>4
  <1>6. Rest(t, 2) = Rest(s, 3)
    BY <1>1, <1>3, <1>4, <1>5 DEF Rest
  <1>7. {t[i].last : i \in 2 .. Len(t)} = {s[i].last : i \in 3 .. Len(s)}
    BY <1>1, <1>3, <1>4, <1>5
  <1>8. QED BY <1>6, <1>7 DEF Under

LEMMA ViewPopped ==
    ASSUME NEW s \in Seq(DupFrame), Len(s) > 1, NEW g \in DupFrame, NEW t,
           t = <<g>> \o SubSeq(s, 3, Len(s))
    PROVE  /\ t # <<>> /\ t[1] = g
           /\ Under(s, 2) = {s[2].new, s[2].last} \cup Under(s, 3)
           /\ Rest(s, 2) = {s[2].new} \cup Rest(s, 3)
           /\ Len(t) = Len(s) - 1 /\ \A i \in 3 .. Len(s) : t[i - 1] = s[i]
           /\ \A i \in 2 .. Len(s) - 1 : t[i] = s[i + 1]
  <1>1. /\ t \in Seq(DupFrame) /\ Len(t) = Len(s) - 1 /\ t[1] = g
        /\ \A i \in 2 .. Len(s) - 1 : t[i] = s[i + 1]
    BY Popped
  <1> DEFINE l == Len(s)
  <1>2. l \in Nat /\ l > 1
    OBVIOUS
  <1> HIDE DEF l
  <1>3. Len(s) = l /\ Len(t) = l - 1
    BY <1>1 DEF l
  <1>4. t # <<>>
    BY <1>1, <1>2, <1>3
  <1>5. /\ \A i \in 2 .. l - 1 : i + 1 \in 3 .. l
        /\ \A i \in 3 .. l : i - 1 \in 2 .. l - 1 /\ (i - 1) + 1 = i
        /\ 2 .. l = {2} \cup 3 .. l
    BY <1>2
  <1>6. \A i \in 3 .. l : t[i - 1] = s[i]
    BY <1>1, <1>3, <1>5
  <1>7. Rest(s, 2) = {s[2].new} \cup Rest(s, 3)
    BY <1>1, <1>3, <1>5, <1>6 DEF Rest
  <1>8. {s[i].last : i \in 2 .. Len(s)} = {s[2].last} \cup {s[i].last : i \in 3 .. Len(s)}
    BY <1>1, <1>3, <1>5, <1>6
  <1>9. Under(s, 2) = {s[2].new, s[2].last} \cup Under(s, 3)
    BY <1>7, <1>8 DEF Under
  <1>10. QED BY <1>1, <1>3, <1>4, <1>6, <1>7, <1>9

LEMMA CallersPopped ==
    ASSUME NEW s \in Seq(DupFrame), Len(s) > 1, NEW g \in DupFrame, NEW t,
           t = <<g>> \o SubSeq(s, 3, Len(s)), NEW item, NEW recurse, Callers(s, item, recurse),
           g.item = s[2].item, g.recurse = s[2].recurse
    PROVE  Callers(t, item, recurse)
  <1>1. /\ Len(t) = Len(s) - 1 /\ t[1] = g /\ \A i \in 2 .. Len(s) - 1 : t[i] = s[i + 1]
    BY Popped
  <1> DEFINE l == Len(s)
  <1>2. l \in Nat /\ l > 1
    OBVIOUS
  <1> HIDE DEF l
  <1>3. Len(s) = l /\ Len(t) = l - 1
    BY <1>1 DEF l
  <1>4. ASSUME NEW i \in 1 .. l - 1
        PROVE  t[i].item = s[i + 1].item /\ t[i].recurse = s[i + 1].recurse
    <2>1. CASE i = 1
      BY <1>1, <2>1
    <2>2. CASE i # 1
      <3>1. i \in 2 .. l - 1
        BY <1>2, <2>2
      <3>2. QED BY <1>1, <1>3, <3>1
    <2>3. QED BY <2>1, <2>2
  <1>5. t[Len(t)].item = item /\ t[Len(t)].recurse = recurse
    <2>1. l - 1 \in 1 .. l - 1 /\ (l - 1) + 1 = l
      BY <1>2
    <2>2. QED BY <1>3, <1>4, <2>1 DEF Callers
  <1>6. ASSUME NEW i \in 2 .. l - 1 PROVE t[i - 1].recurse /\ t[i - 1].item = t[i].child
    <2>1. i + 1 \in 2 .. l /\ (i + 1) - 1 = i /\ i - 1 \in 1 .. l - 1 /\ (i - 1) + 1 = i
      BY <1>2
    <2>2. s[i].recurse /\ s[i].item = s[i + 1].child
      BY <1>3, <2>1 DEF Callers
    <2>3. t[i] = s[i + 1]
      BY <1>1, <1>3
    <2>4. QED BY <1>4, <2>1, <2>2, <2>3
  <1>7. QED BY <1>3, <1>5, <1>6 DEF Callers

(* All that is known of a copy under way.                                   *)
Known ==
    CopyInv /\ CopyInv' /\ OriginalInv /\ MirrorInv /\ ValuesInv /\ KeepsSource /\ Making

(* What cJSON_Delete leaves it does not touch.                              *)
LEMMA SurvivorsUntouched ==
    ASSUME TypeOK, NEW t, Discard(t)
    PROVE  /\ \A x \in live' : Untouched(x) /\ x \in live
           /\ live' = live \ Reach(t)
           /\ valueint \in [Item -> Item \cup Nat] => valueint' \in [Item -> Item \cup Nat]
  <1>1. PICK F \in {Reach(t)} :
           /\ Free(F, next, prev, child, string)
           /\ valuestring' = [y \in Item |-> IF y \in F THEN NULL ELSE valuestring[y]]
           /\ valueint' = [y \in Item |-> IF y \in F THEN 0 ELSE valueint[y]]
    BY DEF Discard
  <1>2. live' = live \ F /\ live \subseteq Item /\ F = Reach(t)
    BY <1>1 DEF Free, TypeOK
  <1>3. ASSUME NEW x \in live' PROVE Untouched(x) /\ x \in live
    <2>1. x \in Item /\ x \notin F /\ x \in live
      BY <1>2
    <2>2. QED BY <1>1, <2>1 DEF Free, Untouched
  <1>4. valueint \in [Item -> Item \cup Nat] => valueint' \in [Item -> Item \cup Nat]
    BY <1>1
  <1>5. QED BY <1>2, <1>3, <1>4

LEMMA NextValuesInv ==
    ASSUME CopyInv, ValuesInv, Making
    PROVE  ValuesInv'
  <1>1. MakeStep /\ TypeOK
    BY DEF Making, CopyInv, TypesInv
  <1>2. CASE AddElement
    <2>1. building \in Builder
      BY <1>2, Building DEF AddElement
    <2>2. building.done + 1 \in Nat
      BY <2>1 DEF Builder
    <2>3. QED BY <1>2, <2>2 DEF AddElement, ValuesInv
  <1>3. CASE NewItem
    <2>1. Locals.item \in Item
      BY <1>3, Innermost DEF NewItem, At, Locals
    <2>2. valueint[Locals.item] \in Item \cup Nat
      BY <2>1 DEF ValuesInv
    <2>3. QED BY <1>3, <2>2 DEF NewItem, ValuesInv
  <1>4. ASSUME NEW t, Discard(t) PROVE ValuesInv'
    BY <1>1, <1>4, SurvivorsUntouched DEF ValuesInv
  <1>5. CASE AddElementFails \/ KidFails \/ AllocationFails
    <2>1. valueint' = valueint \/ \E t : Discard(t)
      BY <1>5 DEF AddElementFails, KidFails, AllocationFails, values
    <2>2. QED BY <1>4, <2>1 DEF ValuesInv
  <1>6. CASE ArrayDone \/ CopyText \/ CopyName \/ NextKid \/ LinkKid \/ DuplicateDone
    <2>1. valueint' = valueint
      BY <1>6 DEF ArrayDone, CopyText, CopyName, NextKid, LinkKid, DuplicateDone, values
    <2>2. QED BY <2>1 DEF ValuesInv
  <1>7. QED BY <1>1, <1>2, <1>3, <1>5, <1>6 DEF MakeStep

(* The original keeps what is copied, and copies what they are copies of.   *)
LEMMA ContentKept ==
    ASSUME Known
    PROVE  KeepsContent
  <1>1. /\ MakeStep /\ TypeOK /\ ValuesInv /\ \A y \in before.items : y \in live' /\ y \in live
        /\ before.items \subseteq Item /\ isObject \subseteq live
    BY DEF Known, Making, CopyInv, TypesInv, TypeOK, KeepsSource
  <1>2. ASSUME NEW x \in New \cap New' PROVE copied'[x] = copied[x]
    <2>1. x \in live /\ x \in live' /\ x \in Item
      BY <1>1 DEF New, TypeOK
    <2>2. QED BY <2>1 DEF Known, Making
  <1>3. ASSUME NEW y \in before.items
        PROVE  valueint'[y] = valueint[y] /\ (y \in isObject' <=> y \in isObject)
    <2>1. ASSUME NEW t, Discard(t) PROVE Untouched(y)
      BY <1>1, <2>1, SurvivorsUntouched
    <2>2. CASE AddElement
      <3>1. y # Fresh
        BY <1>1, <2>2, FreshFree DEF AddElement
      <3>2. QED BY <1>1, <2>2, <3>1 DEF AddElement, ValuesInv
    <2>3. CASE NewItem
      <3>1. y # Fresh
        BY <1>1, <2>3, FreshFree DEF NewItem
      <3>2. QED BY <1>1, <2>3, <3>1 DEF NewItem, ValuesInv
    <2>4. CASE AddElementFails \/ KidFails \/ AllocationFails
      <3>1. UNCHANGED <<valueint, isObject>> \/ \E t : Discard(t)
        BY <2>4 DEF AddElementFails, KidFails, AllocationFails, values
      <3>2. QED BY <2>1, <3>1 DEF Untouched
    <2>5. CASE ArrayDone \/ CopyText \/ CopyName \/ NextKid \/ LinkKid \/ DuplicateDone
      BY <2>5 DEF ArrayDone, CopyText, CopyName, NextKid, LinkKid, DuplicateDone, values, vars
    <2>6. QED BY <1>1, <2>2, <2>3, <2>4, <2>5 DEF MakeStep
  <1>4. QED BY <1>2, <1>3 DEF KeepsContent

(* What an activation that waits has made and linked last.                  *)
LEMMA WaitsHere ==
    ASSUME NEW s, NEW from \in Nat, NEW N \in SUBSET Item, NEW n, NEW c, NEW p,
           Inside(n, c, p, N), Waiting(s, from, N, n, c), NEW i \in from .. Len(s)
    PROVE  s[i].new \in N /\ s[i].last \in N \cup {NULL} /\ s[i].at = "kids"
  <1>1. /\ s[i].at = "kids" /\ s[i].new \in N
        /\ EndsWith(n, c, N, s[i].new, s[i].last)
    BY NullIsNoItem DEF Waiting, Good
  <1>2. Below(n, c, N, s[i].new) \subseteq N
    BY <1>1, BelowClosed
  <1>3. QED BY <1>1, <1>2 DEF EndsWith

(* Those that wait, from the second or third on, go on doing so.            *)
LEMMA WaitingGoesOn ==
    ASSUME Known, UNCHANGED <<before>>, copying # <<>>, copying' # <<>>, NEW from \in {1, 2, 3},
           WaitingMirror(copying, from, next, child, copied),
           \A i \in from .. Len(copying) :
              /\ copying[i].at = "kids" /\ copying[i].new \in New /\ copying[i].new \in New'
              /\ copying[i].last \in New \cup {NULL} /\ copying[i].last \in New' \cup {NULL},
           \A x \in New \cap New' : child[x] # NULL => child'[x] # NULL
    PROVE  WaitingMirror(copying, from, next', child', copied')
  <1> SUFFICES ASSUME NEW i \in from .. Len(copying)
               PROVE  MirrorKids(copying[i], next', child', copied')
    BY DEF WaitingMirror
  <1> DEFINE f == copying[i]
  <1>1. CopyInv /\ KeepsSource /\ KeepsContent
    BY ContentKept DEF Known
  <1>2. i \in 1 .. Len(copying)
    <2>1. Len(copying) \in Nat
      BY <1>1, Innermost
    <2>2. QED BY <2>1
  <1>3. f.item \in before.items
    BY <1>2 DEF Known, OriginalInv, Reads
  <1>4. f.last # NULL => copied[f.last] \in before.items
    BY DEF Known, MirrorInv, MirrorItem
  <1>5. MirrorKids(f, next, child, copied)
    BY DEF WaitingMirror
  <1>6. Survives(f)
    BY <1>3, <1>4 DEF Survives
  <1> HIDE DEF f
  <1>7. MirrorKids(f, next', child', copied')
    BY <1>1, <1>5, <1>6, KidsStay
  <1>8. QED BY <1>7 DEF f

(* What the activations below the innermost one have, before a step and,    *)
(* when they stay, after it.                                                *)
LEMMA WaitingNow ==
    ASSUME CopyInv, copying # <<>>
    PROVE  \A i \in 2 .. Len(copying) :
              copying[i].at = "kids" /\ copying[i].new \in New /\ copying[i].last \in New \cup {NULL}
  <1>1. /\ Waiting(copying, 2, New, next, child) /\ New \in SUBSET Item
        /\ Inside(next, child, prev, New)
    BY Innermost
  <1>2. 2 \in Nat
    OBVIOUS
  <1>3. QED BY <1>1, <1>2, WaitsHere

LEMMA WaitingThen ==
    ASSUME CopyInv', copying' # <<>>
    PROVE  \A i \in 2 .. Len(copying') :
              copying'[i].new \in New' /\ copying'[i].last \in New' \cup {NULL}
  <1>1. /\ Frames(copying', New', next', child') /\ New' \in SUBSET Item
        /\ IsForest(next', child', prev', New', News(copying'))
    BY DEF CopyInv, MakingInv, TypesInv, TypeOK, New
  <1>2. Waiting(copying', 2, New', next', child') /\ Inside(next', child', prev', New')
    BY <1>1 DEF Frames, IsForest
  <1>3. 2 \in Nat
    OBVIOUS
  <1>4. QED BY <1>1, <1>2, <1>3, WaitsHere

(* The innermost activation goes on as g.                                   *)
LEMMA MirrorGoesOn ==
    ASSUME Known, copying # <<>>, NEW g \in DupFrame, copying' = <<g>> \o Tail(copying),
           g.item = copying[1].item, g.recurse = copying[1].recurse,
           \A x \in New \cap New' : child[x] # NULL => child'[x] # NULL,
           MirrorTop(copying[1])', \A x \in New' : MirrorItem(x)'
    PROVE  MirrorInv'
  <1>1. /\ CopyInv /\ CopyInv' /\ UNCHANGED <<call, before>> /\ copying \in Seq(DupFrame)
        /\ WaitingMirror(copying, 2, next, child, copied)
        /\ Callers(copying, call.item, call.recurse)
    BY Innermost DEF Known, Making, MirrorInv
  <1>2. /\ copying' # <<>> /\ copying'[1] = g /\ Len(copying') = Len(copying)
    BY <1>1, ViewReplaced
  <1>3. \A i \in 2 .. Len(copying) : copying'[i] = copying[i]
    BY <1>1, ViewReplaced
  <1>4. \A i \in 2 .. Len(copying) :
           /\ copying[i].at = "kids" /\ copying[i].new \in New /\ copying[i].new \in New'
           /\ copying[i].last \in New \cup {NULL} /\ copying[i].last \in New' \cup {NULL}
    BY <1>1, <1>2, <1>3, WaitingNow, WaitingThen
  <1>5. WaitingMirror(copying, 2, next', child', copied')
    <2>1. 2 \in {1, 2, 3}
      OBVIOUS
    <2>2. QED BY <1>1, <1>2, <1>4, <2>1, WaitingGoesOn
  <1>6. Callers(copying', call.item, call.recurse)
    BY <1>1, CallersReplaced
  <1>7. WaitingMirror(copying', 2, next', child', copied')
    BY <1>2, <1>3, <1>5 DEF WaitingMirror
  <1>8. QED BY <1>1, <1>2, <1>6, <1>7 DEF MirrorInv

(* What the innermost activation and its item have.                         *)
LEMMA MirrorInnermost ==
    ASSUME Known, copying # <<>>
    PROVE  /\ CopyInv /\ CopyInv' /\ OriginalInv /\ KeepsSource /\ KeepsContent /\ TypeOK
           /\ UNCHANGED <<before, call>>
           /\ copying \in Seq(DupFrame) /\ copying[1] \in DupFrame /\ Head(copying) = copying[1]
           /\ Good(copying[1], FALSE, New, next, child) /\ MirrorTop(copying[1])
           /\ copying[1].item \in before.items /\ copying[1].item \in Item
           /\ copying[1].item \in live /\ before.items \subseteq live
           /\ New \subseteq live /\ live \subseteq Item
           /\ \A x \in New : MirrorItem(x)
           /\ \A x \in New \cap New' : copied'[x] = copied[x]
  <1>1. /\ CopyInv /\ CopyInv' /\ OriginalInv /\ KeepsSource /\ TypeOK
        /\ UNCHANGED <<before, call>> /\ MirrorTop(copying[1])
        /\ \A x \in New : MirrorItem(x)
    BY DEF Known, Making, MirrorInv, CopyInv, TypesInv
  <1>2. KeepsContent /\ \A x \in New \cap New' : copied'[x] = copied[x]
    BY ContentKept DEF KeepsContent
  <1>3. before.items \subseteq live /\ New \subseteq live /\ live \subseteq Item
    BY DEF Known, CopyInv, TypesInv, TypeOK, New
  <1>4. QED BY <1>1, <1>2, <1>3, Innermost, InnermostReads

(* Where the innermost activation goes on, what is still to be linked.      *)
LEMMA EndsReplaced ==
    ASSUME copying \in Seq(DupFrame), copying # <<>>, NEW g \in DupFrame,
           copying' = <<g>> \o Tail(copying)
    PROVE  /\ copying'[1] = g
           /\ Ends(copying') = {g.new} \cup (IF g.at = "kids" THEN {g.last} ELSE {})
                                  \cup Under(copying, 2)
           /\ Bare(copying') = {g.new} \cup Rest(copying, 2)
           /\ Begun(copying') = IF g.at \in {"text", "name"} THEN {g.new} ELSE {}
  <1> DEFINE s == copying
             t == copying'
  <1>1. s \in Seq(DupFrame) /\ s # <<>> /\ t = <<g>> \o Tail(s)
    OBVIOUS
  <1> HIDE DEF s, t
  <1>2. t[1] = g
    BY <1>1, ViewReplaced
  <1>3. Under(t, 2) = Under(s, 2)
    BY <1>1, ViewReplaced
  <1>4. Rest(t, 2) = Rest(s, 2)
    BY <1>1, ViewReplaced
  <1>5. QED BY <1>2, <1>3, <1>4 DEF Ends, Bare, Begun, s, t

LEMMA NewItemMirror ==
    ASSUME Known, NewItem
    PROVE  MirrorInv'
  <1>1. copying # <<>> /\ MemoryLeft /\ Head(copying).at = "new"
    BY DEF NewItem, At
  <1>3. PICK x \in Item \ live : x = Fresh
    BY <1>1, FreshFree
  <1> DEFINE f == copying[1]
             g == [f EXCEPT !.at = "text", !.new = x]
  <1>2. /\ CopyInv /\ CopyInv' /\ OriginalInv /\ KeepsSource /\ KeepsContent /\ TypeOK
        /\ UNCHANGED <<before, call>> /\ copying \in Seq(DupFrame) /\ f \in DupFrame
        /\ Head(copying) = f /\ f.at = "new" /\ f.new = NULL
        /\ f.item \in before.items /\ f.item \in Item /\ f.item \in live
        /\ before.items \subseteq live /\ New \subseteq live /\ live \subseteq Item
        /\ \A y \in New : MirrorItem(y)
    BY <1>1, MirrorInnermost DEF Good
  <1>4. /\ copying' = <<g>> \o Tail(copying) /\ live' = live \cup {x}
        /\ valueint' = [valueint EXCEPT ![x] = valueint[f.item]]
        /\ isObject' = IF f.item \in isObject THEN isObject \cup {x} ELSE isObject
        /\ UNCHANGED <<next, prev, child, string, valuestring>>
    BY <1>2, <1>3 DEF NewItem, Locals, Goto, Blank
  <1>5. copied'[x] = f.item
    BY <1>1, <1>2, <1>3, <1>4 DEF Known, Making, Locals
  <1>6. next[x] = NULL /\ child[x] = NULL
    BY <1>2, <1>3 DEF CopyInv, NewInv, BlankInv
  <1>7. valueint \in [Item -> Item \cup Nat]
    BY DEF Known, ValuesInv
  <1> HIDE DEF f
  <1>8. /\ g \in DupFrame /\ g.at = "text" /\ g.new = x /\ g.item = f.item
        /\ g.recurse = f.recurse
    BY <1>2, <1>3 DEF DupFrame
  <1> HIDE DEF g
  <1>9. /\ copying'[1] = g
        /\ Ends(copying') = {x} \cup Under(copying, 2)
        /\ Bare(copying') = {x} \cup Rest(copying, 2)
        /\ Begun(copying') = {x}
    BY <1>1, <1>2, <1>4, <1>8, EndsReplaced
  <1>10. /\ Ends(copying) = {NULL} \cup Under(copying, 2)
         /\ Bare(copying) = {NULL} \cup Rest(copying, 2) /\ Begun(copying) = {}
    BY <1>2 DEF Ends, Bare, Begun, f
  <1>11. New' = New \cup {x} /\ x \notin New
    BY <1>2, <1>3, <1>4 DEF New
  <1>12. MirrorItem(x)'
    <2>1. /\ copied'[x] \in before'.items /\ x \in Begun(copying') /\ x \in Ends(copying')
          /\ x \in Bare(copying') /\ next'[x] = NULL /\ child'[x] = NULL
      BY <1>2, <1>4, <1>5, <1>6, <1>9
    <2>2. QED BY <2>1 DEF MirrorItem
  <1>13. ASSUME NEW y \in New PROVE MirrorItem(y)'
    <2>1. y \in New' /\ y # x /\ y \in Item /\ y # NULL
      BY <1>2, <1>11, NullIsNoItem
    <2>2. Untouched(y)
      BY <1>4, <1>7, <2>1 DEF Untouched
    <2>3. StaysOpen(y)
      BY <1>9, <1>10, <2>1 DEF StaysOpen
    <2>4. QED BY <1>2, <2>1, <2>2, <2>3, MirrorStays
  <1>14. MirrorTop(copying[1])'
    <2>1. f.item # x
      BY <1>2, <1>3
    <2>2. /\ copied'[g.new] = g.item /\ valueint'[g.new] = valueint'[g.item]
          /\ (g.new \in isObject' <=> g.item \in isObject')
      BY <1>2, <1>3, <1>4, <1>5, <1>7, <1>8, <2>1 DEF TypeOK
    <2>3. QED BY <1>8, <1>9, <2>2 DEF MirrorTop
  <1>15. g.item = copying[1].item /\ g.recurse = copying[1].recurse
    BY <1>8 DEF f
  <1>16. QED BY <1>1, <1>4, <1>8, <1>11, <1>12, <1>13, <1>14, <1>15, MirrorGoesOn

LEMMA CopyTextMirror ==
    ASSUME Known, CopyText
    PROVE  MirrorInv'
  <1> DEFINE f == copying[1]
             g == [f EXCEPT !.at = "name"]
  <1>1. copying # <<>> /\ Head(copying).at = "text"
    BY DEF CopyText, At
  <1>2. /\ CopyInv /\ CopyInv' /\ OriginalInv /\ KeepsSource /\ KeepsContent /\ TypeOK
        /\ UNCHANGED <<before, call>> /\ copying \in Seq(DupFrame) /\ f \in DupFrame
        /\ Head(copying) = f /\ f.at = "text" /\ f.new \in New /\ f.item \in before.items
        /\ New \subseteq live /\ live \subseteq Item /\ MirrorTop(f)
        /\ \A y \in New : MirrorItem(y)
        /\ \A y \in New \cap New' : copied'[y] = copied[y]
    BY <1>1, MirrorInnermost DEF Good
  <1>3. /\ valuestring' = [valuestring EXCEPT ![f.new] = valuestring[f.item]]
        /\ copying' = <<g>> \o Tail(copying) /\ UNCHANGED <<vars, valueint>>
    BY <1>2 DEF CopyText, Locals, Goto
  <1>4. UNCHANGED <<live, next, child, string, isObject, valueint>> /\ New' = New
    BY <1>2, <1>3 DEF vars, New
  <1>5. valuestring \in [Item -> Item \cup {NULL}]
    BY <1>2 DEF CopyInv, TypesInv
  <1>6. /\ g \in DupFrame /\ g.at = "name" /\ g.new = f.new /\ g.item = f.item
        /\ g.recurse = f.recurse
    BY <1>2 DEF DupFrame
  <1>7. g.item = copying[1].item /\ g.recurse = copying[1].recurse
    BY <1>6 DEF f
  <1>8. /\ Ends(copying) = {f.new} \cup Under(copying, 2)
        /\ Bare(copying) = {f.new} \cup Rest(copying, 2) /\ Begun(copying) = {f.new}
    BY <1>2 DEF Ends, Bare, Begun, f
  <1> HIDE DEF f, g
  <1>9. /\ copying'[1] = g
        /\ Ends(copying') = {f.new} \cup Under(copying, 2)
        /\ Bare(copying') = {f.new} \cup Rest(copying, 2)
        /\ Begun(copying') = {f.new}
    BY <1>1, <1>2, <1>3, <1>6, EndsReplaced
  <1>10. ASSUME NEW y \in New PROVE MirrorItem(y)'
    <2>1. CASE y # f.new
      <3>1. y \in Item
        BY <1>2
      <3>2. Untouched(y)
        BY <1>3, <1>4, <1>5, <2>1, <3>1 DEF Untouched
      <3>3. StaysOpen(y)
        BY <1>8, <1>9 DEF StaysOpen
      <3>4. QED BY <1>2, <1>4, <3>2, <3>3, MirrorStays
    <2>2. CASE y = f.new
      <3>1. /\ copied[y] \in before.items /\ copied'[y] = copied[y]
            /\ IsCopy(next[y], next[copied[y]]) \/ (next[y] = NULL /\ y \in Ends(copying))
            /\ IsCopy(child[y], child[copied[y]]) \/ (child[y] = NULL /\ y \in Bare(copying))
        BY <1>2, <1>4 DEF MirrorItem
      <3>2. next[y] \in New \cup {NULL} /\ child[y] \in New \cup {NULL}
        BY <1>2 DEF CopyInv, NewInv
      <3>3. /\ IsCopy(next[y], next[copied[y]])' \/ (next'[y] = NULL /\ y \in Ends(copying'))
            /\ IsCopy(child[y], child[copied[y]])' \/ (child'[y] = NULL /\ y \in Bare(copying'))
        BY <1>2, <1>4, <1>8, <1>9, <3>1, <3>2 DEF IsCopy
      <3>4. y \in Begun(copying') /\ copied'[y] \in before'.items
        BY <1>2, <1>9, <2>2, <3>1
      <3>5. QED BY <3>3, <3>4 DEF MirrorItem
    <2>3. QED BY <2>1, <2>2
  <1>11. MirrorTop(copying[1])'
    <2>1. /\ copied[f.new] = f.item /\ valueint[f.new] = valueint[f.item]
          /\ (f.new \in isObject <=> f.item \in isObject)
      BY <1>2, NullIsNoItem DEF MirrorTop
    <2>2. f.item # f.new /\ f.item \in Item /\ f.new \in Item
      BY <1>2 DEF New, CopyInv, TypesInv
    <2>3. /\ copied'[g.new] = g.item /\ valueint'[g.new] = valueint'[g.item]
          /\ (g.new \in isObject' <=> g.item \in isObject')
          /\ valuestring'[g.new] = valuestring'[g.item]
      BY <1>2, <1>3, <1>4, <1>5, <1>6, <2>1, <2>2
    <2>4. QED BY <1>6, <1>9, <2>3 DEF MirrorTop
  <1>12. QED BY <1>1, <1>3, <1>4, <1>6, <1>7, <1>10, <1>11, MirrorGoesOn

LEMMA CopyNameMirror ==
    ASSUME Known, CopyName
    PROVE  MirrorInv'
  <1> DEFINE f == copying[1]
             g == [f EXCEPT !.at = IF f.recurse THEN "kids" ELSE "return",
                            !.child = child[f.item]]
             name == IF string[f.item] = NULL \/ SharesName(f.item)
                     THEN string[f.item] ELSE Copy(string[f.item].key)
  <1>1. copying # <<>> /\ Head(copying).at = "name"
    BY DEF CopyName, At
  <1>2. /\ CopyInv /\ CopyInv' /\ OriginalInv /\ KeepsSource /\ KeepsContent /\ TypeOK
        /\ UNCHANGED <<before, call>> /\ copying \in Seq(DupFrame) /\ f \in DupFrame
        /\ Head(copying) = f /\ f.at = "name" /\ f.new \in New /\ f.new # NULL /\ f.last = NULL
        /\ EndsWith(next, child, New, f.new, f.last)
        /\ f.item \in before.items /\ f.item \in Item
        /\ New \subseteq live /\ live \subseteq Item /\ MirrorTop(f)
        /\ \A y \in New : MirrorItem(y)
        /\ \A y \in New \cap New' : copied'[y] = copied[y]
    BY <1>1, MirrorInnermost DEF Good
  <1>3. /\ string' = [string EXCEPT ![f.new] = name]
        /\ copying' = <<g>> \o Tail(copying)
        /\ UNCHANGED <<live, links, isObject, values>>
    BY <1>2 DEF CopyName, Locals, Goto
  <1>4. UNCHANGED <<live, next, child, isObject, valueint, valuestring>> /\ New' = New
    BY <1>2, <1>3 DEF links, values, New
  <1>5. child[f.new] = NULL /\ child[f.item] \in Item \cup {NULL}
    BY <1>2 DEF EndsWith, TypeOK
  <1>6. IF string[f.item] = NULL THEN name = NULL
        ELSE name # NULL /\ name.key = string[f.item].key
    <2>1. CASE string[f.item] = NULL \/ SharesName(f.item)
      BY <2>1
    <2>2. CASE ~(string[f.item] = NULL \/ SharesName(f.item))
      <3>1. string[f.item] \in Name
        BY <1>2, <2>2 DEF TypeOK
      <3>2. name = [key |-> string[f.item].key, literal |-> FALSE]
        BY <2>2 DEF Copy
      <3> DEFINE k == string[f.item].key
      <3>3. k \in Key
        BY <3>1 DEF Name
      <3> HIDE DEF k
      <3>4. name = [key |-> k, literal |-> FALSE]
        BY <3>2 DEF k
      <3> HIDE DEF name
      <3>5. [key |-> k, literal |-> FALSE] \in [key : Key, literal : BOOLEAN]
        BY <3>3
      <3>6. name # NULL
        BY <3>4, <3>5, NullIsNoName
      <3>7. name.key = string[f.item].key
        BY <3>4 DEF k
      <3>8. QED BY <2>2, <3>6, <3>7
    <2>3. QED BY <2>1, <2>2
  <1>7. /\ g \in DupFrame /\ g.at = (IF f.recurse THEN "kids" ELSE "return")
        /\ g.new = f.new /\ g.item = f.item
        /\ g.recurse = f.recurse /\ g.last = NULL /\ g.child = child[f.item]
    <2> DEFINE k == child[f.item]
    <2>1. k \in Item \cup {NULL}
      BY <1>5
    <2> HIDE DEF k
    <2>2. LET h == [f EXCEPT !.at = IF f.recurse THEN "kids" ELSE "return", !.child = k]
          IN  /\ h \in DupFrame /\ h.at = (IF f.recurse THEN "kids" ELSE "return")
              /\ h.new = f.new /\ h.item = f.item
              /\ h.recurse = f.recurse /\ h.last = NULL /\ h.child = k
      BY <1>2, <2>1 DEF DupFrame
    <2>3. QED BY <2>2 DEF k
  <1>8. g.item = copying[1].item /\ g.recurse = copying[1].recurse
    BY <1>7 DEF f
  <1>9. /\ Ends(copying) = {f.new} \cup Under(copying, 2)
        /\ Bare(copying) = {f.new} \cup Rest(copying, 2) /\ Begun(copying) = {f.new}
    BY <1>2 DEF Ends, Bare, Begun, f
  <1> HIDE DEF f, g, name
  <1>10. /\ copying'[1] = g
         /\ {f.new} \cup Under(copying, 2) \subseteq Ends(copying')
         /\ Bare(copying') = {f.new} \cup Rest(copying, 2)
         /\ Begun(copying') = {}
    BY <1>1, <1>2, <1>3, <1>7, EndsReplaced
  <1>11. /\ string \in [Item -> Name \cup {NULL}] /\ f.new \in Item /\ f.item # f.new
    BY <1>2 DEF TypeOK, New
  <1>12. string'[f.new] = name /\ \A y \in Item \ {f.new} : string'[y] = string[y]
    BY <1>3, <1>11
  <1>13. ASSUME NEW y \in New PROVE MirrorItem(y)'
    <2>1. CASE y # f.new
      <3>1. y \in Item
        BY <1>2
      <3>2. Untouched(y)
        BY <1>4, <1>12, <2>1, <3>1 DEF Untouched
      <3>3. StaysOpen(y)
        BY <1>9, <1>10, <2>1 DEF StaysOpen
      <3>4. QED BY <1>2, <1>4, <3>2, <3>3, MirrorStays
    <2>2. CASE y = f.new
      <3>1. /\ copied[y] \in before.items /\ copied'[y] = copied[y]
            /\ IsCopy(next[y], next[copied[y]]) \/ (next[y] = NULL /\ y \in Ends(copying))
            /\ IsCopy(child[y], child[copied[y]]) \/ (child[y] = NULL /\ y \in Bare(copying))
        BY <1>2, <1>4 DEF MirrorItem
      <3>2. next[y] \in New \cup {NULL} /\ child[y] \in New \cup {NULL}
        BY <1>2 DEF CopyInv, NewInv
      <3>3. /\ IsCopy(next[y], next[copied[y]])' \/ (next'[y] = NULL /\ y \in Ends(copying'))
            /\ IsCopy(child[y], child[copied[y]])' \/ (child'[y] = NULL /\ y \in Bare(copying'))
        BY <1>2, <1>4, <1>9, <1>10, <3>1, <3>2 DEF IsCopy
      <3>4. copied[y] = f.item
        BY <1>2, <2>2 DEF MirrorTop
      <3>5. /\ valueint[y] = valueint[f.item] /\ valuestring[y] = valuestring[f.item]
            /\ (y \in isObject <=> f.item \in isObject)
        BY <1>2, <2>2 DEF MirrorTop
      <3>6. string'[y] = name /\ string'[f.item] = string[f.item]
        BY <1>2, <1>11, <1>12, <2>2
      <3>7. Alike(y, copied[y])'
        BY <1>4, <1>6, <3>1, <3>4, <3>5, <3>6 DEF Alike
      <3>8. copied'[y] \in before'.items
        BY <1>2, <3>1
      <3>9. QED BY <3>3, <3>7, <3>8 DEF MirrorItem
    <2>3. QED BY <2>1, <2>2
  <1>14. MirrorTop(copying[1])'
    <2>1. copied'[g.new] = g.item
      BY <1>2, <1>4, <1>7 DEF MirrorTop
    <2>2. CASE f.recurse
      <3>1. g.at = "kids" /\ g.recurse /\ g.child = child'[g.item] /\ g.last = NULL
        BY <1>4, <1>7, <2>2
      <3>2. MirrorKids(g, next', child', copied')
        BY <2>1, <3>1 DEF MirrorKids
      <3>3. QED BY <1>10, <2>1, <3>1, <3>2 DEF MirrorTop
    <2>3. CASE ~f.recurse
      <3>1. g.at = "return" /\ ~g.recurse /\ child'[g.new] = NULL
        BY <1>4, <1>5, <1>7, <2>3
      <3>2. QED BY <1>10, <2>1, <3>1 DEF MirrorTop
    <2>4. QED BY <2>2, <2>3
  <1>15. \A x \in New \cap New' : child[x] # NULL => child'[x] # NULL
    BY <1>4
  <1>16. \A y \in New' : MirrorItem(y)'
    BY <1>4, <1>13
  <1>17. QED BY <1>1, <1>3, <1>7, <1>8, <1>14, <1>15, <1>16, MirrorGoesOn

(* What a tree that is freed leaves mirrors its original still.             *)
LEMMA SurvivorsMirror ==
    ASSUME Known, copying # <<>>, NEW t \in New, Discard(t),
           \A y \in New' : y \notin Reach(t) => StaysOpen(y)
    PROVE  /\ \A y \in New' : MirrorItem(y)'
           /\ \A x \in New \cap New' : child[x] # NULL => child'[x] # NULL
  <1>1. /\ CopyInv /\ CopyInv' /\ KeepsSource /\ KeepsContent /\ TypeOK
        /\ UNCHANGED <<before, call>> /\ \A y \in New : MirrorItem(y)
    BY MirrorInnermost
  <1>2. live' = live \ Reach(t) /\ \A x \in live' : Untouched(x) /\ x \in live
    BY <1>1, SurvivorsUntouched
  <1>3. ASSUME NEW y \in New' PROVE y \in New /\ Untouched(y) /\ y \notin Reach(t)
    BY <1>1, <1>2 DEF New
  <1>4. ASSUME NEW y \in New' PROVE MirrorItem(y)'
    <2>1. StaysOpen(y) /\ y \in New /\ Untouched(y) /\ MirrorItem(y)
      BY <1>1, <1>3
    <2>2. QED BY <1>1, <2>1, MirrorStays
  <1>5. QED BY <1>3, <1>4 DEF Untouched

LEMMA AllocationFailsMirror ==
    ASSUME Known, AllocationFails
    PROVE  MirrorInv'
  <1> DEFINE f == copying[1]
             g == [f EXCEPT !.at = "return", !.new = NULL]
  <1>1. copying # <<>>
    BY DEF AllocationFails, At
  <1>2. /\ CopyInv /\ CopyInv' /\ OriginalInv /\ KeepsSource /\ KeepsContent /\ TypeOK
        /\ UNCHANGED <<before, call>> /\ copying \in Seq(DupFrame) /\ f \in DupFrame
        /\ Head(copying) = f /\ Good(f, FALSE, New, next, child)
        /\ New \subseteq live /\ live \subseteq Item
        /\ \A y \in New : MirrorItem(y)
    BY <1>1, MirrorInnermost
  <1>3. /\ copying' = <<g>> \o Tail(copying)
        /\ \/ f.at = "new" /\ UNCHANGED <<live, links, string, isObject, values>>
           \/ f.at \in {"text", "name"} /\ Discard(f.new)
    BY <1>2 DEF AllocationFails, Locals, Goto, At
  <1>4. g \in DupFrame /\ g.new = NULL /\ g.at = "return" /\ g.item = f.item
        /\ g.recurse = f.recurse
    BY <1>2 DEF DupFrame
  <1>5. g.item = copying[1].item /\ g.recurse = copying[1].recurse
    BY <1>4 DEF f
  <1>6. f.at \in {"new", "text", "name"} =>
           /\ Ends(copying) = {f.new} \cup Under(copying, 2)
           /\ Bare(copying) = {f.new} \cup Rest(copying, 2) /\ Begun(copying) \subseteq {f.new}
    BY <1>2 DEF Ends, Bare, Begun, f
  <1> HIDE DEF f, g
  <1>7. /\ copying'[1] = g /\ Under(copying, 2) \subseteq Ends(copying')
        /\ Rest(copying, 2) \subseteq Bare(copying') /\ Begun(copying') = {}
    BY <1>1, <1>2, <1>3, <1>4, EndsReplaced
  <1>8. MirrorTop(copying[1])'
    BY <1>4, <1>7 DEF MirrorTop
  <1>9. ASSUME NEW y, y # f.new, f.at \in {"new", "text", "name"} PROVE StaysOpen(y)
    BY <1>6, <1>7, <1>9 DEF StaysOpen
  <1>10. CASE f.at = "new" /\ UNCHANGED <<live, links, string, isObject, values>>
    <2>1. New' = New /\ UNCHANGED <<next, child, string, isObject, valuestring, valueint>>
      BY <1>2, <1>10 DEF New, links, values
    <2>2. ASSUME NEW y \in New PROVE MirrorItem(y)'
      <3>1. y # f.new
        BY <1>2, <1>10, NullIsNoItem DEF Good
      <3>2. StaysOpen(y) /\ Untouched(y) /\ y \in New'
        BY <1>9, <1>10, <2>1, <3>1 DEF Untouched
      <3>3. QED BY <1>2, <3>2, MirrorStays
    <2>3. \A x \in New \cap New' : child[x] # NULL => child'[x] # NULL
      BY <2>1
    <2>4. \A y \in New' : MirrorItem(y)'
      BY <2>1, <2>2
    <2>5. QED BY <1>1, <1>3, <1>4, <1>5, <1>8, <2>3, <2>4, MirrorGoesOn
  <1>11. CASE f.at \in {"text", "name"} /\ Discard(f.new)
    <2>1. f.new \in New /\ f.new \in Item
      BY <1>2, <1>11 DEF Good
    <2>2. f.new \in Reach(f.new)
      BY <1>2, <2>1, ReachClosed
    <2>3. \A y \in New' : y \notin Reach(f.new) => StaysOpen(y)
      BY <1>9, <1>11, <2>2
    <2>4. /\ \A y \in New' : MirrorItem(y)'
          /\ \A x \in New \cap New' : child[x] # NULL => child'[x] # NULL
      BY <1>1, <1>11, <2>1, <2>3, SurvivorsMirror
    <2>5. QED BY <1>1, <1>3, <1>4, <1>5, <1>8, <2>4, MirrorGoesOn
  <1>12. QED BY <1>3, <1>10, <1>11

(* Where another activation begins on top of the innermost one.              *)
LEMMA CopyingPushed ==
    ASSUME copying \in Seq(DupFrame), copying # <<>>, NEW k \in DupFrame,
           copying' = <<k>> \o copying
    PROVE  /\ copying' # <<>> /\ copying'[1] = k
           /\ Under(copying', 2) = {copying[1].new, copying[1].last} \cup Under(copying, 2)
           /\ Rest(copying', 2) = {copying[1].new} \cup Rest(copying, 2)
           /\ Len(copying') = Len(copying) + 1
           /\ \A i \in 2 .. Len(copying) + 1 : copying'[i] = copying[i - 1]
  <1> DEFINE s == copying
             t == copying'
  <1>1. s \in Seq(DupFrame) /\ s # <<>> /\ t = <<k>> \o s
    OBVIOUS
  <1> HIDE DEF s, t
  <1>2. t # <<>> /\ t[1] = k
    BY <1>1, ViewPushed
  <1>3. Under(t, 2) = {s[1].new, s[1].last} \cup Under(s, 2)
    BY <1>1, ViewPushed
  <1>4. Rest(t, 2) = {s[1].new} \cup Rest(s, 2)
    BY <1>1, ViewPushed
  <1>5. Len(t) = Len(s) + 1
    BY <1>1, ViewPushed
  <1>6. \A i \in 2 .. Len(s) + 1 : t[i] = s[i - 1]
    BY <1>1, ViewPushed
  <1>7. QED BY <1>2, <1>3, <1>4, <1>5, <1>6 DEF s, t

(* The kids are all copied, or the next one is.                             *)
LEMMA NextKidMirror ==
    ASSUME Known, NextKid
    PROVE  MirrorInv'
  <1> DEFINE f == copying[1]
             g == [f EXCEPT !.at = "return"]
             k == Call(f.child, TRUE)
  <1>1. copying # <<>> /\ Head(copying).at = "kids"
    BY DEF NextKid, At
  <1>2. /\ CopyInv /\ CopyInv' /\ OriginalInv /\ KeepsSource /\ KeepsContent /\ TypeOK
        /\ UNCHANGED <<before, call>> /\ copying \in Seq(DupFrame) /\ f \in DupFrame
        /\ Head(copying) = f /\ f.at = "kids" /\ f.new \in New /\ f.new # NULL
        /\ EndsWith(next, child, New, f.new, f.last)
        /\ New \subseteq live /\ live \subseteq Item /\ MirrorTop(f)
        /\ \A y \in New : MirrorItem(y)
        /\ \A y \in New \cap New' : copied'[y] = copied[y]
    BY <1>1, MirrorInnermost DEF Good
  <1>3. /\ copying' = IF f.child = NULL THEN <<g>> \o Tail(copying) ELSE <<k>> \o copying
        /\ UNCHANGED <<vars, values>>
    BY <1>2 DEF NextKid, Locals
  <1>4. UNCHANGED <<live, next, child, string, isObject, valueint, valuestring>> /\ New' = New
    BY <1>2, <1>3 DEF vars, values, New
  <1>5. \A y \in New : Untouched(y) /\ y \in New'
    BY <1>4 DEF Untouched
  <1>6. /\ Ends(copying) = {f.new, f.last} \cup Under(copying, 2)
        /\ Bare(copying) = {f.new} \cup Rest(copying, 2) /\ Begun(copying) = {}
    BY <1>2 DEF Ends, Bare, Begun, f
  <1>7. MirrorKids(f, next, child, copied)
    BY <1>2 DEF MirrorTop
  <1>8. \A x \in New \cap New' : child[x] # NULL => child'[x] # NULL
    BY <1>4
  <1>9. f.last \in New \cup {NULL}
    <2>1. Inside(next, child, prev, New) /\ New \in SUBSET Item
      BY <1>1, <1>2, Innermost
    <2>2. Below(next, child, New, f.new) \subseteq New
      BY <1>2, <2>1, BelowClosed
    <2>3. QED BY <1>2, <2>2 DEF EndsWith
  <1>10. CASE f.child = NULL
    <2>1. g \in DupFrame /\ g.new = f.new /\ g.at = "return" /\ g.item = f.item
          /\ g.recurse = f.recurse
      BY <1>2 DEF DupFrame
    <2>2. g.item = copying[1].item /\ g.recurse = copying[1].recurse
      BY <2>1 DEF f
    <2>3. copying' = <<g>> \o Tail(copying)
      BY <1>3, <1>10
    <2> HIDE DEF f, g
    <2>4. /\ copying'[1] = g /\ Ends(copying') = {f.new} \cup Under(copying, 2)
          /\ Bare(copying') = {f.new} \cup Rest(copying, 2) /\ Begun(copying') = {}
      BY <1>1, <1>2, <2>1, <2>3, EndsReplaced
    <2>5. f.last # NULL => IsCopy(next[f.last], next[copied[f.last]])
      BY <1>2, <1>7, <1>10 DEF MirrorKids, EndsWith, IsCopy
    <2>6. ASSUME NEW y \in New PROVE MirrorItem(y)'
      <3>1. y # NULL
        BY <1>2, NullIsNoItem
      <3>2. StaysOpen(y)
        BY <1>6, <2>4, <2>5, <3>1 DEF StaysOpen
      <3>3. QED BY <1>2, <1>5, <3>2, MirrorStays
    <2>7. IsCopy(child[f.new], child[f.item])
      <3>1. copied[f.new] = f.item
        BY <1>7 DEF MirrorKids
      <3>2. CASE f.last = NULL
        BY <1>2, <1>7, <1>10, <3>2 DEF MirrorKids, EndsWith, IsCopy
      <3>3. CASE f.last # NULL
        <4>1. child[f.new] # NULL
          BY <1>7, <3>3 DEF MirrorKids
        <4>2. QED BY <1>2, <3>1, <4>1 DEF MirrorItem
      <3>4. QED BY <3>2, <3>3
    <2>8. MirrorTop(copying[1])'
      <3>1. copied'[f.new] = f.item
        BY <1>2, <1>4, <1>7 DEF MirrorKids
      <3>2. IsCopy(child[f.new], child[f.item])
        BY <2>7
      <3> DEFINE u == child[f.new]
      <3>3. u = NULL \/ (u \in New /\ u \in New')
        BY <1>2, <1>4 DEF CopyInv, NewInv
      <3>4. IF child'[f.item] = NULL THEN child'[f.new] = NULL
            ELSE child'[f.new] # NULL /\ copied'[child'[f.new]] = child'[f.item]
        BY <1>2, <1>4, <3>2, <3>3 DEF IsCopy
      <3>5. g.recurse
        BY <1>7, <2>1 DEF MirrorKids
      <3>6. QED BY <2>1, <2>4, <3>1, <3>4, <3>5 DEF MirrorTop, IsCopy
    <2>9. \A y \in New' : MirrorItem(y)'
      BY <1>4, <2>6
    <2>10. QED BY <1>1, <1>8, <2>1, <2>2, <2>3, <2>8, <2>9, MirrorGoesOn
  <1>11. CASE f.child # NULL
    <2>1. f.child \in Item
      BY <1>2, <1>11 DEF DupFrame
    <2>2. /\ k \in DupFrame /\ k.new = NULL /\ k.at = "new" /\ k.item = f.child
          /\ k.recurse = TRUE
      BY <2>1 DEF DupFrame, Call
    <2>3. copying' = <<k>> \o copying
      BY <1>3, <1>11
    <2>4. Callers(copying, call.item, call.recurse)
          /\ WaitingMirror(copying, 2, next, child, copied)
      BY <1>1 DEF Known, MirrorInv
    <2>5. k.recurse /\ k.item = copying[1].child
      BY <2>2 DEF f
    <2>6. copying[1].new = f.new /\ copying[1].last = f.last /\ copying[1].at = "kids"
          /\ MirrorKids(copying[1], next, child, copied)
      BY <1>2, <1>7 DEF f
    <2> HIDE DEF f, k
    <2>7. /\ copying' # <<>> /\ copying'[1] = k
          /\ Under(copying', 2) = {copying[1].new, copying[1].last} \cup Under(copying, 2)
          /\ Rest(copying', 2) = {copying[1].new} \cup Rest(copying, 2)
          /\ Len(copying') = Len(copying) + 1
          /\ \A i \in 2 .. Len(copying) + 1 : copying'[i] = copying[i - 1]
      BY <1>1, <1>2, <2>2, <2>3, CopyingPushed
    <2>11. Callers(copying', call.item, call.recurse)
      BY <1>1, <1>2, <2>2, <2>3, <2>4, <2>5, CallersPushed
    <2>12. \A y \in New : StaysOpen(y)
      BY <1>6, <2>6, <2>7 DEF StaysOpen, Ends, Bare
    <2>13. \A y \in New : MirrorItem(y)'
      BY <1>2, <1>5, <2>12, MirrorStays
    <2>14. MirrorTop(copying[1])'
      BY <2>2, <2>7 DEF MirrorTop
    <2> DEFINE l == Len(copying)
    <2>15. l \in Nat \ {0}
      BY <1>1, <1>2, Innermost
    <2>16. \A i \in 1 .. l : MirrorKids(copying[i], next, child, copied)
      <3>1. \A i \in 1 .. l : i = 1 \/ i \in 2 .. l
        BY <2>15
      <3>2. QED BY <2>4, <2>6, <3>1 DEF WaitingMirror
    <2>17. WaitingMirror(copying, 1, next', child', copied')
      <3>1. WaitingMirror(copying, 1, next, child, copied)
        BY <2>16 DEF WaitingMirror
      <3>2. \A i \in 1 .. Len(copying) :
              /\ copying[i].at = "kids" /\ copying[i].new \in New /\ copying[i].new \in New'
              /\ copying[i].last \in New \cup {NULL} /\ copying[i].last \in New' \cup {NULL}
        <4>1. \A i \in 1 .. Len(copying) : i = 1 \/ i \in 2 .. Len(copying)
          BY <2>15
        <4>2. QED BY <1>1, <1>2, <1>4, <1>9, <2>6, <4>1, WaitingNow
      <3>3. 1 \in {1, 2, 3}
        OBVIOUS
      <3>4. QED BY <1>1, <1>2, <1>8, <2>7, <3>1, <3>2, <3>3, WaitingGoesOn
    <2>18. WaitingMirror(copying', 2, next', child', copied')
      <3>1. \A i \in 2 .. l + 1 : i - 1 \in 1 .. l
        BY <2>15
      <3>2. QED BY <2>7, <2>17, <3>1 DEF WaitingMirror
    <2>19. QED BY <1>2, <1>4, <2>11, <2>13, <2>14, <2>18 DEF MirrorInv
  <1>12. QED BY <1>10, <1>11

(* Where the innermost activation returns to the one below it.              *)
LEMMA CopyingPopped ==
    ASSUME copying \in Seq(DupFrame), Len(copying) > 1, NEW g \in DupFrame,
           copying' = <<g>> \o SubSeq(copying, 3, Len(copying))
    PROVE  /\ copying' # <<>> /\ copying'[1] = g
           /\ Under(copying, 2) = {copying[2].new, copying[2].last} \cup Under(copying, 3)
           /\ Rest(copying, 2) = {copying[2].new} \cup Rest(copying, 3)
           /\ Len(copying') = Len(copying) - 1
           /\ \A i \in 3 .. Len(copying) : copying'[i - 1] = copying[i]
           /\ \A i \in 2 .. Len(copying) - 1 : copying'[i] = copying[i + 1]
           /\ Ends(copying') = {g.new} \cup (IF g.at = "kids" THEN {g.last} ELSE {})
                                  \cup Under(copying, 3)
           /\ Bare(copying') = {g.new} \cup Rest(copying, 3)
           /\ Begun(copying') = IF g.at \in {"text", "name"} THEN {g.new} ELSE {}
  <1> DEFINE s == copying
             t == copying'
  <1>1. s \in Seq(DupFrame) /\ Len(s) > 1 /\ t = <<g>> \o SubSeq(s, 3, Len(s))
    OBVIOUS
  <1> HIDE DEF s, t
  <1>2. t # <<>> /\ t[1] = g
    BY <1>1, ViewPopped
  <1>3. Under(t, 2) = Under(s, 3)
    BY <1>1, RestPopped
  <1>4. Rest(t, 2) = Rest(s, 3)
    BY <1>1, RestPopped
  <1>5. Under(s, 2) = {s[2].new, s[2].last} \cup Under(s, 3)
    BY <1>1, ViewPopped
  <1>6. Rest(s, 2) = {s[2].new} \cup Rest(s, 3)
    BY <1>1, ViewPopped
  <1>7. Len(t) = Len(s) - 1
    BY <1>1, ViewPopped
  <1>8. \A i \in 3 .. Len(s) : t[i - 1] = s[i]
    BY <1>1, ViewPopped
  <1>9. \A i \in 2 .. Len(s) - 1 : t[i] = s[i + 1]
    BY <1>1, ViewPopped
  <1>10. /\ Ends(t) = {g.new} \cup (IF g.at = "kids" THEN {g.last} ELSE {}) \cup Under(s, 3)
         /\ Bare(t) = {g.new} \cup Rest(s, 3)
         /\ Begun(t) = IF g.at \in {"text", "name"} THEN {g.new} ELSE {}
    BY <1>2, <1>3, <1>4 DEF Ends, Bare, Begun
  <1>11. QED BY <1>2, <1>5, <1>6, <1>7, <1>8, <1>9, <1>10 DEF s, t

(* The one below goes on as g.                                              *)
LEMMA MirrorReturns ==
    ASSUME Known, Len(copying) > 1, NEW g \in DupFrame,
           copying' = <<g>> \o SubSeq(copying, 3, Len(copying)),
           g.item = copying[2].item, g.recurse = copying[2].recurse,
           \A x \in New \cap New' : child[x] # NULL => child'[x] # NULL,
           MirrorTop(copying[1])', \A x \in New' : MirrorItem(x)'
    PROVE  MirrorInv'
  <1>1. copying # <<>>
    BY Caller DEF Known
  <1>2. /\ CopyInv /\ CopyInv' /\ UNCHANGED <<call, before>> /\ copying \in Seq(DupFrame)
        /\ WaitingMirror(copying, 2, next, child, copied)
        /\ Callers(copying, call.item, call.recurse)
    BY <1>1, Innermost DEF Known, Making, MirrorInv
  <1>3. /\ copying' # <<>> /\ Len(copying') = Len(copying) - 1
        /\ \A i \in 3 .. Len(copying) : copying'[i - 1] = copying[i]
    BY <1>2, CopyingPopped
  <1>4. \A i \in 2 .. Len(copying) - 1 : copying'[i] = copying[i + 1]
    BY <1>2, CopyingPopped
  <1> DEFINE l == Len(copying)
  <1>5. l \in Nat
    BY <1>1, <1>2, Innermost
  <1>6. /\ \A i \in 3 .. l : i \in 2 .. l /\ i - 1 \in 2 .. l - 1
        /\ \A i \in 2 .. l - 1 : i + 1 \in 3 .. l
    BY <1>5
  <1>7. \A i \in 3 .. Len(copying) :
           /\ copying[i].at = "kids" /\ copying[i].new \in New /\ copying[i].new \in New'
           /\ copying[i].last \in New \cup {NULL} /\ copying[i].last \in New' \cup {NULL}
    <2>1. \A i \in 2 .. l :
             copying[i].at = "kids" /\ copying[i].new \in New /\ copying[i].last \in New \cup {NULL}
      BY <1>1, <1>2, WaitingNow
    <2>2. \A i \in 2 .. l - 1 : copying'[i].new \in New' /\ copying'[i].last \in New' \cup {NULL}
      BY <1>2, <1>3, WaitingThen
    <2>3. QED BY <1>3, <1>6, <2>1, <2>2
  <1>8. WaitingMirror(copying, 3, next', child', copied')
    <2>1. 3 \in {1, 2, 3}
      OBVIOUS
    <2>2. WaitingMirror(copying, 3, next, child, copied)
      BY <1>2, <1>6 DEF WaitingMirror
    <2>3. QED BY <1>1, <1>2, <1>3, <1>7, <2>1, <2>2, WaitingGoesOn
  <1>9. Callers(copying', call.item, call.recurse)
    BY <1>2, CallersPopped
  <1>10. WaitingMirror(copying', 2, next', child', copied')
    BY <1>3, <1>4, <1>6, <1>8 DEF WaitingMirror
  <1>11. QED BY <1>2, <1>3, <1>9, <1>10 DEF MirrorInv

(* What the activation that waits for the innermost one has.                *)
LEMMA MirrorCaller ==
    ASSUME Known, Len(copying) > 1
    PROVE  /\ copying # <<>>
           /\ copying[1].recurse /\ copying[1].item = copying[2].child
           /\ MirrorKids(copying[2], next, child, copied)
           /\ copying[2] \in DupFrame /\ copying[2].new \in New /\ copying[2].new # NULL
           /\ copying[2].new # copying[1].new /\ copying[2].at = "kids"
           /\ copying[2].last \in New \cup {NULL} /\ copying[2].child # NULL
           /\ EndsWith(next, child, New, copying[2].new, copying[2].last)
  <1>1. /\ copying # <<>> /\ CopyInv /\ copying[2] \in DupFrame /\ copying[2].new # copying[1].new
        /\ Good(copying[2], TRUE, New, next, child) /\ copying[2].new \in Item
    BY Caller DEF Known
  <1>2. Len(copying) \in Nat
    BY <1>1, Innermost
  <1>3. 2 \in 2 .. Len(copying) /\ 2 - 1 = 1
    BY <1>2
  <1>4. copying[1].recurse /\ copying[1].item = copying[2].child
    BY <1>1, <1>3 DEF Known, MirrorInv, Callers
  <1>5. MirrorKids(copying[2], next, child, copied)
    BY <1>1, <1>3 DEF Known, MirrorInv, WaitingMirror
  <1>6. copying[2].new \in New /\ copying[2].last \in New \cup {NULL}
    BY <1>1, <1>3, WaitingNow
  <1>7. QED BY <1>1, <1>4, <1>5, <1>6, NullIsNoItem DEF Good

(* The copy of a kid is linked behind the copy of the kid before it.        *)
LEMMA LinkKidMirror ==
    ASSUME Known, LinkKid
    PROVE  MirrorInv'
  <1> DEFINE h == copying[1]
             f == copying[2]
             x == h.new
             u == f.new
             l == f.last
             g == [f EXCEPT !.last = x, !.child = next[f.child]]
  <1>1. Len(copying) > 1
    BY DEF LinkKid
  <1>2. /\ copying # <<>> /\ h.recurse /\ h.item = f.child
        /\ MirrorKids(f, next, child, copied)
        /\ f \in DupFrame /\ u \in New /\ u # NULL /\ u # x /\ f.at = "kids"
        /\ l \in New \cup {NULL} /\ f.child # NULL /\ EndsWith(next, child, New, u, l)
    BY <1>1, MirrorCaller
  <1>3. /\ CopyInv /\ CopyInv' /\ OriginalInv /\ KeepsSource /\ KeepsContent /\ TypeOK
        /\ UNCHANGED <<before, call>> /\ copying \in Seq(DupFrame)
        /\ Head(copying) = h /\ Good(h, FALSE, New, next, child) /\ MirrorTop(h)
        /\ h.item \in before.items /\ h.item \in Item
        /\ New \subseteq live /\ live \subseteq Item
        /\ \A y \in New : MirrorItem(y)
        /\ \A y \in New \cap New' : copied'[y] = copied[y]
    BY <1>2, MirrorInnermost
  <1>4. /\ h.at = "return" /\ x # NULL /\ Appends(u, x, l)
        /\ copying' = <<g>> \o SubSeq(copying, 3, Len(copying))
        /\ UNCHANGED <<live, names, isReference, isObject, roots, crashed, values, building>>
    BY <1>3 DEF LinkKid, At, Locals, Appends
  <1>5. x \in New
    BY <1>3, <1>4 DEF Good
  <1>6. copied[x] = f.child /\ IsCopy(child[x], child[copied[x]])
    BY <1>2, <1>3, <1>4 DEF MirrorTop
  <1>7. next[f.child] \in Item \cup {NULL}
    <2>1. f.child \in Item /\ TypeOK
      BY <1>2, <1>3
    <2>2. QED BY <2>1 DEF TypeOK
  <1>8. /\ g \in DupFrame /\ g.new = u /\ g.at = "kids" /\ g.last = x /\ g.item = f.item
        /\ g.recurse = f.recurse /\ g.child = next[f.child]
    <2> DEFINE k == next[f.child]
    <2>1. k \in Item \cup {NULL} /\ x \in Item
      BY <1>3, <1>5, <1>7
    <2> HIDE DEF k, x
    <2>2. LET m == [f EXCEPT !.last = x, !.child = k]
          IN  /\ m \in DupFrame /\ m.new = f.new /\ m.at = "kids" /\ m.last = x
              /\ m.item = f.item /\ m.recurse = f.recurse /\ m.child = k
      BY <1>2, <2>1 DEF DupFrame
    <2>3. QED BY <2>2 DEF k
  <1>9. /\ Ends(copying) = {x} \cup Under(copying, 2)
        /\ Bare(copying) = {x} \cup Rest(copying, 2) /\ Begun(copying) = {}
    BY <1>4 DEF Ends, Bare, Begun
  <1>10. u = copying[2].new /\ l = copying[2].last /\ g.item = copying[2].item
         /\ g.recurse = copying[2].recurse
    BY <1>8
  <1> HIDE DEF h, f, x, u, l, g
  <1>11. /\ copying'[1] = g
         /\ Ends(copying') = {u, x} \cup Under(copying, 3)
         /\ Bare(copying') = {u} \cup Rest(copying, 3)
         /\ Begun(copying') = {}
    BY <1>1, <1>3, <1>4, <1>8, CopyingPopped
  <1>12. /\ Under(copying, 2) = {u, l} \cup Under(copying, 3)
         /\ Rest(copying, 2) = {u} \cup Rest(copying, 3)
    BY <1>1, <1>3, <1>4, <1>8, <1>10, CopyingPopped
  <1>13. /\ New' = New
         /\ UNCHANGED <<string, isObject, valueint, valuestring>>
    BY <1>3, <1>4 DEF New, names, values
  <1>14. next \in [Item -> Item \cup {NULL}] /\ child \in [Item -> Item \cup {NULL}]
         /\ New \subseteq Item
    BY <1>3 DEF TypeOK
  <1>15. ASSUME NEW y \in New
         PROVE  /\ next'[y] = IF y = l THEN x ELSE next[y]
                /\ child'[y] = IF y = u /\ l = NULL THEN x ELSE child[y]
    <2>1. y # NULL
      BY <1>14, NullIsNoItem
    <2>2. CASE l = NULL
      BY <1>4, <1>14, <2>1, <2>2 DEF Appends
    <2>3. CASE l # NULL
      BY <1>4, <1>14, <2>1, <2>3 DEF Appends
    <2>4. QED BY <2>2, <2>3
  <1>16. l = NULL => child[u] = NULL
    BY <1>2 DEF EndsWith, u, f, l
  <1>17. l # u /\ u # x
    BY <1>2, NullIsNoItem DEF EndsWith, u, f, l
  <1>18. /\ copied[u] = f.item /\ f.recurse
         /\ f.child = IF l = NULL THEN child[f.item] ELSE next[copied[l]]
         /\ l # NULL => child[u] # NULL
    BY <1>2 DEF MirrorKids, u, l
  <1>19. copied'[x] = f.child
    BY <1>3, <1>5, <1>6, <1>13
  <1>20. ASSUME NEW y \in New PROVE MirrorItem(y)'
    <2>1. /\ copied[y] \in before.items /\ copied'[y] = copied[y] /\ y # NULL /\ y \in New'
          /\ Alike(y, copied[y])
          /\ IsCopy(next[y], next[copied[y]]) \/ (next[y] = NULL /\ y \in Ends(copying))
          /\ IsCopy(child[y], child[copied[y]]) \/ (child[y] = NULL /\ y \in Bare(copying))
      BY <1>3, <1>9, <1>13, <1>14, NullIsNoItem DEF MirrorItem
    <2>2. next'[copied[y]] = next[copied[y]] /\ child'[copied[y]] = child[copied[y]]
      BY <1>3, <2>1 DEF KeepsSource
    <2>3. next[y] \in New \cup {NULL} /\ child[y] \in New \cup {NULL}
      BY <1>3 DEF CopyInv, NewInv
    <2>4. Alike(y, copied[y])'
      BY <1>13, <2>1 DEF Alike
    <2>5. IsCopy(next[y], next[copied[y]])' \/ (next'[y] = NULL /\ y \in Ends(copying'))
      <3>1. CASE y = l
        <4>1. next'[y] = x /\ l # NULL /\ next'[copied'[y]] = f.child
          BY <1>15, <1>18, <2>1, <2>2, <3>1
        <4>2. QED BY <1>2, <1>4, <1>19, <4>1 DEF IsCopy, f
      <3>2. CASE y # l
        <4>1. next'[y] = next[y]
          BY <1>15, <3>2
        <4>2. y \in Ends(copying) => y \in Ends(copying')
          BY <1>9, <1>11, <1>12, <3>2
        <4>3. IsCopy(next[y], next[copied[y]]) => IsCopy(next[y], next[copied[y]])'
          BY <1>3, <1>13, <2>1, <2>2, <2>3, <4>1 DEF IsCopy
        <4>4. QED BY <2>1, <4>1, <4>2, <4>3
      <3>3. QED BY <3>1, <3>2
    <2>6. IsCopy(child[y], child[copied[y]])' \/ (child'[y] = NULL /\ y \in Bare(copying'))
      <3>1. CASE y = u /\ l = NULL
        <4>1. child'[y] = x /\ child'[copied'[y]] = f.child
          BY <1>15, <1>18, <2>1, <2>2, <3>1
        <4>2. QED BY <1>2, <1>4, <1>19, <4>1 DEF IsCopy, f
      <3>2. CASE ~(y = u /\ l = NULL)
        <4>1. child'[y] = child[y]
          BY <1>15, <3>2
        <4>2. y \in Bare(copying) => y \in Bare(copying') \/ IsCopy(child[y], child[copied[y]])
          BY <1>6, <1>9, <1>11, <1>12
        <4>3. IsCopy(child[y], child[copied[y]]) => IsCopy(child[y], child[copied[y]])'
          BY <1>3, <1>13, <2>1, <2>2, <2>3, <4>1 DEF IsCopy
        <4>4. QED BY <2>1, <4>1, <4>2, <4>3
      <3>3. QED BY <3>1, <3>2
    <2>7. copied'[y] \in before'.items
      BY <1>3, <2>1
    <2>8. QED BY <2>4, <2>5, <2>6, <2>7 DEF MirrorItem
  <1>21. child'[u] # NULL
    BY <1>2, <1>4, <1>15, <1>18 DEF u, f
  <1>22. MirrorTop(copying[1])'
    <2>1. u \in New /\ f.child \in before.items
      BY <1>2, <1>3 DEF u, f
    <2>2. copied'[u] = f.item /\ next'[f.child] = next[f.child]
      BY <1>3, <1>13, <1>18, <2>1 DEF KeepsSource
    <2>3. MirrorKids(g, next', child', copied')
      BY <1>4, <1>8, <1>18, <1>19, <1>21, <2>2 DEF MirrorKids
    <2>4. QED BY <1>8, <1>11, <2>2, <2>3 DEF MirrorTop
  <1>23. \A y \in New \cap New' : child[y] # NULL => child'[y] # NULL
    BY <1>4, <1>15
  <1>24. \A y \in New' : MirrorItem(y)'
    BY <1>13, <1>20
  <1>25. QED BY <1>1, <1>4, <1>8, <1>10, <1>22, <1>23, <1>24, MirrorReturns

(* The parent's copy goes with the kid that could not be copied.            *)
LEMMA KidFailsMirror ==
    ASSUME Known, KidFails
    PROVE  MirrorInv'
  <1> DEFINE f == copying[2]
             u == f.new
             g == [f EXCEPT !.at = "return", !.new = NULL]
  <1>1. Len(copying) > 1
    BY DEF KidFails
  <1>2. /\ copying # <<>> /\ f \in DupFrame /\ u \in New
        /\ f.last \in New \cup {NULL} /\ EndsWith(next, child, New, u, f.last)
    BY <1>1, MirrorCaller
  <1>3. /\ CopyInv /\ copying \in Seq(DupFrame) /\ Head(copying) = copying[1]
        /\ New \subseteq live /\ live \subseteq Item
    BY <1>2, MirrorInnermost
  <1>4. /\ copying[1].at = "return" /\ copying[1].new = NULL /\ Discard(u)
        /\ copying' = <<g>> \o SubSeq(copying, 3, Len(copying))
    BY <1>3 DEF KidFails, At, Locals
  <1>5. g \in DupFrame /\ g.new = NULL /\ g.at = "return" /\ g.item = f.item
        /\ g.recurse = f.recurse
    BY <1>2 DEF DupFrame
  <1>6. g.item = copying[2].item /\ g.recurse = copying[2].recurse
    BY <1>5
  <1>7. /\ Ends(copying) = {NULL} \cup Under(copying, 2)
        /\ Bare(copying) = {NULL} \cup Rest(copying, 2) /\ Begun(copying) = {}
    BY <1>4 DEF Ends, Bare, Begun
  <1>8. u \in Reach(u) /\ (f.last # NULL => f.last \in Reach(u))
    <2>1. Inside(next, child, prev, New) /\ TypesInv /\ NoReference /\ New \in SUBSET Item
      BY <1>2, <1>3, Innermost DEF CopyInv, NewInv
    <2>2. Reach(u) = Below(next, child, New, u)
      BY <1>2, <2>1, ReachNew
    <2>3. QED BY <1>2, <2>1, <2>2, BelowClosed DEF EndsWith
  <1> HIDE DEF g
  <1>9. /\ copying'[1] = g /\ Ends(copying') = {NULL} \cup Under(copying, 3)
        /\ Bare(copying') = {NULL} \cup Rest(copying, 3)
        /\ Begun(copying') = {}
    BY <1>1, <1>3, <1>4, <1>5, CopyingPopped
  <1>10. /\ Under(copying, 2) = {u, f.last} \cup Under(copying, 3)
         /\ Rest(copying, 2) = {u} \cup Rest(copying, 3)
    BY <1>1, <1>3, <1>4, <1>5, CopyingPopped
  <1>11. ASSUME NEW y \in New', y \notin Reach(u) PROVE StaysOpen(y)
    BY <1>7, <1>8, <1>9, <1>10, <1>11 DEF StaysOpen
  <1>12. /\ \A y \in New' : MirrorItem(y)'
         /\ \A x \in New \cap New' : child[x] # NULL => child'[x] # NULL
    BY <1>2, <1>4, <1>11, SurvivorsMirror
  <1>13. MirrorTop(copying[1])'
    BY <1>5, <1>9 DEF MirrorTop
  <1>14. QED BY <1>1, <1>4, <1>5, <1>6, <1>12, <1>13, MirrorReturns

(* The outermost activation returns: the whole is mirrored.                 *)
LEMMA DuplicateDoneMirror ==
    ASSUME Known, DuplicateDone
    PROVE  MirrorInv' /\ MirrorsInv'
  <1> DEFINE f == copying[1]
             m == f.new
  <1>1. copying # <<>> /\ Len(copying) = 1
    BY DEF DuplicateDone, At
  <1>2. /\ CopyInv /\ CopyInv' /\ KeepsSource
        /\ UNCHANGED <<before, call>> /\ copying \in Seq(DupFrame)
        /\ Head(copying) = f /\ MirrorTop(f) /\ f.item \in before.items
        /\ \A y \in New : MirrorItem(y)
        /\ \A y \in New \cap New' : copied'[y] = copied[y]
    BY <1>1, MirrorInnermost
  <1>3. /\ f.at = "return" /\ copying' = <<>> /\ made' = m
        /\ UNCHANGED <<live, links, names, isObject, values>>
    BY <1>2 DEF DuplicateDone, At, Locals
  <1>4. MirrorInv'
    BY <1>3 DEF MirrorInv
  <1>5. New' = New /\ UNCHANGED <<live, next, child, string, isObject, valueint, valuestring>>
    BY <1>2, <1>3 DEF New, links, names, values
  <1>6. f.item = call.item /\ f.recurse = call.recurse
    BY <1>1 DEF Known, MirrorInv, Callers
  <1>7. /\ Ends(copying) = {m} /\ Bare(copying) = {m} /\ Begun(copying) = {}
    <2>1. 2 .. Len(copying) = {}
      BY <1>1
    <2>2. Under(copying, 2) = {} /\ Rest(copying, 2) = {}
      BY <2>1 DEF Under, Rest
    <2>3. QED BY <1>3, <2>2 DEF Ends, Bare, Begun
  <1>8. m # NULL => m \in New /\ next[m] = NULL
    <2>1. /\ IsForest(next, child, prev, New, News(copying))
          /\ News(copying) = ({m} \ {NULL}) \cup Rest(copying, 2)
      BY <1>1, <1>2, Innermost
    <2>2. QED BY <2>1 DEF IsForest, Loose
  <1> HIDE DEF f, m
  <1>9. ASSUME m # NULL PROVE Mirrors(call.item, call.recurse)'
    <2>1. copied'[m] = call.item /\ next'[m] = NULL
      BY <1>2, <1>5, <1>6, <1>8, <1>9 DEF MirrorTop, m
    <2>2. ASSUME NEW y \in New
          PROVE  /\ Alike(y, copied[y])'
                 /\ y # m => IsCopy(next[y], next[copied[y]])'
                 /\ IF y = m /\ ~call.recurse THEN child'[y] = NULL
                    ELSE IsCopy(child[y], child[copied[y]])'
      <3>1. /\ copied'[y] = copied[y] /\ Alike(y, copied[y])
            /\ IsCopy(next[y], next[copied[y]]) \/ y = m
            /\ IsCopy(child[y], child[copied[y]]) \/ y = m
        BY <1>2, <1>5, <1>7 DEF MirrorItem
      <3>2. next[y] \in New \cup {NULL} /\ child[y] \in New \cup {NULL}
        BY <1>2 DEF CopyInv, NewInv
      <3>3. Alike(y, copied[y])'
        BY <1>5, <3>1 DEF Alike
      <3>4. y # m => IsCopy(next[y], next[copied[y]])'
        BY <1>2, <1>5, <3>1, <3>2 DEF IsCopy
      <3>5. IsCopy(child[y], child[copied[y]]) => IsCopy(child[y], child[copied[y]])'
        BY <1>2, <1>5, <3>1, <3>2 DEF IsCopy
      <3>6. y = m => IF call.recurse THEN IsCopy(child[y], child[copied[y]]) ELSE child[y] = NULL
        BY <1>2, <1>3, <1>6, <1>9 DEF MirrorTop, m
      <3>7. QED BY <1>5, <3>1, <3>3, <3>4, <3>5, <3>6
    <2>3. live' \ before'.items = New /\ call' = call /\ made' = m
      BY <1>2, <1>3, <1>5 DEF New
    <2>4. QED BY <2>1, <2>2, <2>3 DEF Mirrors
  <1>10. MirrorsInv'
    BY <1>3, <1>9 DEF MirrorsInv
  <1>11. QED BY <1>4, <1>10

LEMMA MakingMirror ==
    ASSUME Known, MirrorsInv
    PROVE  MirrorInv' /\ MirrorsInv'
  <1>1. MakeStep /\ call' = call
    BY DEF Known, Making
  <1>2. CASE copying = <<>>
    <2>1. building # NULL /\ call.name = "array"
      BY <1>1, <1>2 DEF MakeStep, NewItem, CopyText, CopyName, AllocationFails, NextKid, LinkKid,
         KidFails, DuplicateDone, At, AddElement, AddElementFails, ArrayDone,
         Known, CopyInv, CallInv
    <2>2. copying' = <<>>
      BY <1>1, <1>2 DEF MakeStep, NewItem, CopyText, CopyName, AllocationFails, NextKid, LinkKid,
         KidFails, DuplicateDone, At, AddElement, AddElementFails, ArrayDone
    <2>3. QED BY <1>1, <2>1, <2>2 DEF MirrorInv, MirrorsInv
  <1>3. CASE copying # <<>>
    <2>1. building = NULL
      BY <1>3, Innermost DEF Known
    <2>2. CASE DuplicateDone
      BY <2>2, DuplicateDoneMirror
    <2>3. CASE ~DuplicateDone
      <3>1. \/ NewItem \/ CopyText \/ CopyName \/ AllocationFails
            \/ NextKid \/ LinkKid \/ KidFails
        BY <1>1, <2>1, <2>3 DEF MakeStep, AddElement, AddElementFails, ArrayDone
      <3>2. MirrorInv'
        BY <3>1, NewItemMirror, CopyTextMirror, CopyNameMirror, AllocationFailsMirror,
           NextKidMirror, LinkKidMirror, KidFailsMirror
      <3>3. copying' # <<>>
        <4>1. CopyInv /\ copying \in Seq(DupFrame) /\ Len(copying) \in Nat \ {0}
          BY <1>3, Innermost DEF Known
        <4>2. \E g, s : copying' = <<g>> \o s /\ s \in Seq(DupFrame)
          <5>1. Tail(copying) \in Seq(DupFrame)
            BY <1>3, <4>1
          <5>2. Len(copying) > 1 => SubSeq(copying, 3, Len(copying)) \in Seq(DupFrame)
            <6>1. SubSeq(copying, 3, Len(copying)) \in Seq(DupFrame)
              BY <4>1
            <6>2. QED BY <6>1
          <5>3. CASE NewItem \/ CopyText \/ CopyName \/ AllocationFails
            BY <5>1, <5>3 DEF NewItem, CopyText, CopyName, AllocationFails, Goto
          <5>4. CASE NextKid
            BY <4>1, <5>1, <5>4 DEF NextKid
          <5>5. CASE LinkKid \/ KidFails
            BY <5>2, <5>5 DEF LinkKid, KidFails
          <5>6. QED BY <3>1, <5>3, <5>4, <5>5
        <4>3. PICK g, s : copying' = <<g>> \o s /\ s \in Seq(DupFrame)
          BY <4>2
        <4>4. QED BY <4>3
      <3>4. QED BY <3>2, <3>3 DEF MirrorsInv
    <2>4. QED BY <2>2, <2>3
  <1>4. QED BY <1>2, <1>3

LEMMA NextMirrorInv ==
    ASSUME CopyInv, CopyInv', OriginalInv, MirrorInv, MirrorsInv, ValuesInv, KeepsSource,
           [CopySortNext]_allVars
    PROVE  MirrorInv' /\ MirrorsInv' /\ ValuesInv'
  <1>1. ASSUME NEW count \in Count, MakeArray(count) PROVE MirrorInv' /\ MirrorsInv' /\ ValuesInv'
    <2>1. /\ call.name = "none" /\ copying' = copying /\ valueint' = valueint
          /\ call' = [name |-> "array", count |-> count]
      BY <1>1 DEF MakeArray, CreateArrayOf, values
    <2>2. copying = <<>>
      BY <2>1 DEF CopyInv, CallInv, Idle
    <2>3. QED BY <2>1, <2>2 DEF MirrorInv, MirrorsInv, ValuesInv
  <1>2. ASSUME NEW item \in Item, NEW recurse \in BOOLEAN, Copying(item, recurse)
        PROVE  MirrorInv' /\ MirrorsInv' /\ ValuesInv'
    <2>1. /\ live' = live /\ before' = [before EXCEPT !.items = live]
          /\ copying' = <<Call(item, recurse)>> /\ valueint' = valueint
          /\ call' = [name |-> "copy", item |-> item, recurse |-> recurse]
      BY <1>2 DEF Copying, Duplicate, vars, values
    <2>2. before'.items = live
      BY <2>1 DEF CopyInv, TypesInv, Snapshot
    <2>3. New' = {}
      BY <2>1, <2>2 DEF New
    <2> DEFINE g == Call(item, recurse)
    <2>4. g.new = NULL /\ g.at = "new" /\ g.item = item /\ g.recurse = recurse
      BY DEF Call
    <2> HIDE DEF g
    <2>5. copying' # <<>> /\ Len(copying') = 1 /\ copying'[1] = g /\ 2 .. Len(copying') = {}
      BY <2>1 DEF g
    <2>6. MirrorTop(copying[1])'
      BY <2>4, <2>5 DEF MirrorTop
    <2>7. WaitingMirror(copying', 2, next', child', copied')
      BY <2>5 DEF WaitingMirror
    <2>8. call'.item = item /\ call'.recurse = recurse
      BY <2>1
    <2>9. Callers(copying', call'.item, call'.recurse)
      BY <2>4, <2>5, <2>8 DEF Callers
    <2>10. QED BY <2>1, <2>3, <2>5, <2>6, <2>7, <2>9 DEF MirrorInv, MirrorsInv, ValuesInv
  <1>3. CASE Making
    <2>1. Known
      BY <1>3 DEF Known
    <2>2. QED BY <1>3, <2>1, MakingMirror, NextValuesInv
  <1>4. ASSUME NEW object \in Item, NEW sensitive \in BOOLEAN, SortObject(object, sensitive)
        PROVE  MirrorInv' /\ MirrorsInv' /\ ValuesInv'
    <2>1. /\ call' = [name |-> "sort", object |-> object, sensitive |-> sensitive]
          /\ copying = <<>> /\ copying' = copying /\ valueint' = valueint
      BY <1>4 DEF SortObject, Idle, values
    <2>2. QED BY <2>1 DEF MirrorInv, MirrorsInv, ValuesInv
  <1>5. CASE Sorting
    <2>1. sorting # <<>> /\ UNCHANGED <<call, copying, valueint>>
      BY <1>5 DEF Sorting, values, S!SortStep, S!TestSorted, S!WalkTwo, S!Split, S!Merge,
                  S!AppendRest, S!Running
    <2>2. call.name = "sort"
      BY <2>1 DEF CopyInv, CallInv
    <2>3. copying = <<>>
      BY <2>2 DEF CopyInv, CallInv
    <2>4. QED BY <2>1, <2>2, <2>3 DEF MirrorInv, MirrorsInv, ValuesInv
  <1>6. CASE UNCHANGED allVars
    <2>1. UNCHANGED <<live, next, prev, child, string, isObject, valueint, valuestring, copying,
                      made, call, before, copied>>
      BY <1>6 DEF allVars, dupVars, vars, values, names
    <2>2. UNCHANGED <<New, Ends(copying), Bare(copying), Begun(copying)>>
      BY <2>1 DEF New, Ends, Bare, Begun, Under, Rest
    <2>3. ASSUME copying # <<>> PROVE MirrorInv'
      <3>1. \A x \in New' : MirrorItem(x)'
        BY <2>1, <2>2, <2>3 DEF MirrorInv, MirrorItem, Alike, IsCopy
      <3>2. MirrorTop(copying[1])'
        BY <2>1, <2>3 DEF MirrorInv, MirrorTop, MirrorKids, IsCopy
      <3>3. QED BY <2>1, <2>3, <3>1, <3>2 DEF MirrorInv, WaitingMirror, MirrorKids, Callers
    <2>4. MirrorInv'
      BY <2>1, <2>3 DEF MirrorInv
    <2>5. MirrorsInv'
      BY <2>1 DEF MirrorsInv, Mirrors, Alike, IsCopy
    <2>6. QED BY <2>1, <2>4, <2>5 DEF ValuesInv
  <1>7. QED BY <1>1, <1>2, <1>3, <1>4, <1>5, <1>6 DEF CopySortNext

(* The kids of the only top are new items, and not the top.                 *)
LEMMA KidsOfTop ==
    ASSUME NEW N \in SUBSET Item, NEW a \in N, IsForest(next, child, prev, N, {a})
    PROVE  Kids(a) \subseteq N \ {a}
  <1>1. Inside(next, child, prev, N) /\ Loose(next, child, N, a)
    BY DEF IsForest
  <1>2. CASE child[a] = NULL
    BY <1>2 DEF Kids
  <1>3. CASE child[a] # NULL
    <2> DEFINE T == N \ {a}
    <2>1. child[a] \in T
      BY <1>1, <1>3 DEF Inside, Loose
    <2>2. NextClosed(T)
      BY <1>1 DEF Inside, Loose, NextClosed
    <2>3. T \in SUBSET Item /\ child[a] \in Item
      BY <2>1
    <2> HIDE DEF T
    <2>4. Chain(child[a]) \subseteq T
      BY <2>1, <2>2, <2>3, ChainLeast
    <2>5. QED BY <1>3, <2>4 DEF Kids, T
  <1>4. QED BY <1>2, <1>3

(* An element is numbered, and linked behind the one before it.             *)
LEMMA AddElementNumbers ==
    ASSUME CopyInv, ValuesInv, ElementsInv, AddElement, UNCHANGED <<call, before>>
    PROVE  ElementsInv'
  <1> DEFINE x == Fresh
             a == building.array
             l == building.last
             d == building.done
  <1>1. /\ building # NULL /\ MemoryLeft /\ live' = live \cup {x} /\ Appends(a, x, l)
        /\ building' = [building EXCEPT !.last = x, !.left = @ - 1, !.done = @ + 1]
        /\ valueint' = [valueint EXCEPT ![x] = d + 1]
    BY DEF AddElement, Appends, LastElement
  <1>2. /\ a \in New /\ l \in Item \cup {NULL} /\ IsForest(next, child, prev, New, {a})
        /\ EndsWith(next, child, New, a, l) /\ New \in SUBSET Item /\ TypeOK /\ BlankInv
        /\ building \in Builder
    BY <1>1, Building
  <1>3. x \in Item \ live /\ x # NULL
    BY <1>1, FreshFree, NullIsNoItem
  <1>4. d \in Nat /\ building.left \in Nat
    BY <1>2 DEF Builder
  <1>5. /\ building'.array = a /\ building'.last = x
        /\ building'.left = building.left - 1 /\ building'.done = d + 1
    BY <1>1, <1>2 DEF Builder
  <1>6. Inside(next, child, prev, New) /\ Below(next, child, New, a) \subseteq New
    BY <1>2, BelowClosed DEF IsForest
  <1>7. l \in New \cup {NULL} /\ l # a
    BY <1>2, <1>6, NullIsNoItem DEF EndsWith
  <1>8. /\ call.name = "array" /\ d + building.left = call.count
        /\ IF l = NULL THEN d = 0
           ELSE d # 0 /\ child[a] # NULL /\ valueint[child[a]] = 1 /\ valueint[l] = d
    BY <1>1 DEF ElementsInv
  <1>9. \A y \in New \ {a} :
           IF next[y] = NULL THEN y = l ELSE valueint[next[y]] = valueint[y] + 1
    BY <1>1 DEF ElementsInv
  <1>10. \A y \in New : next[y] \in New \cup {NULL} /\ child[y] \in New \cup {NULL}
    BY <1>6 DEF Inside
  <1>11. next[x] = NULL
    BY <1>2, <1>3 DEF BlankInv
  <1>12. valueint \in [Item -> Item \cup Nat]
    BY DEF ValuesInv
  <1> HIDE DEF x, a, l, d
  <1>13. New' = New \cup {x} /\ x \notin New /\ a # x
    BY <1>1, <1>2, <1>3 DEF New, CopyInv, TypesInv
  <1>14. valueint'[x] = d + 1 /\ \A y \in New : valueint'[y] = valueint[y]
    BY <1>1, <1>2, <1>3, <1>12, <1>13
  <1>15. /\ child'[a] = IF l = NULL THEN x ELSE child[a]
         /\ \A y \in New \cup {x} : next'[y] = IF y = l THEN x ELSE next[y]
    <2>1. \A y \in New \cup {x} : y \in Item /\ y # NULL
      BY <1>2, <1>3, NullIsNoItem
    <2>2. CASE l = NULL
      BY <1>1, <1>2, <2>1, <2>2 DEF Appends, TypeOK
    <2>3. CASE l # NULL
      BY <1>1, <1>2, <2>1, <2>3 DEF Appends, TypeOK
    <2>4. QED BY <2>2, <2>3
  <1>16. child'[a] # NULL /\ valueint'[child'[a]] = 1
    <2>1. CASE l = NULL
      BY <1>3, <1>4, <1>8, <1>14, <1>15, <2>1
    <2>2. CASE l # NULL
      BY <1>2, <1>8, <1>10, <1>14, <1>15, <2>2
    <2>3. QED BY <2>1, <2>2
  <1>17. ASSUME NEW y \in New' \ {a}
         PROVE  IF next'[y] = NULL THEN y = x ELSE valueint'[next'[y]] = valueint'[y] + 1
    <2>1. CASE y = x
      BY <1>7, <1>11, <1>13, <1>15, <2>1
    <2>2. CASE y # x /\ y = l
      <3>1. y \in New /\ next'[y] = x /\ l # NULL
        BY <1>13, <1>15, <2>2, <1>2, NullIsNoItem
      <3>2. QED BY <1>3, <1>8, <1>14, <2>2, <3>1
    <2>3. CASE y # x /\ y # l
      <3>1. y \in New \ {a} /\ next'[y] = next[y]
        BY <1>13, <1>15, <2>3
      <3>2. next[y] # NULL /\ valueint[next[y]] = valueint[y] + 1
        BY <1>9, <2>3, <3>1
      <3>3. next[y] \in New
        BY <1>10, <3>1, <3>2
      <3>4. QED BY <1>14, <3>1, <3>2, <3>3
    <2>4. QED BY <2>1, <2>2, <2>3
  <1>18. building'.done + building'.left = call'.count /\ building'.done # 0
    BY <1>4, <1>5, <1>8
  <1>19. QED BY <1>3, <1>5, <1>8, <1>14, <1>16, <1>17, <1>18 DEF ElementsInv

LEMMA ArrayDoneNumbers ==
    ASSUME CopyInv, ElementsInv, ArrayDone, UNCHANGED <<call, before>>
    PROVE  NumberedInv'
  <1> DEFINE a == building.array
             l == building.last
  <1>1. /\ building # NULL /\ building.left = 0 /\ made' = a
        /\ UNCHANGED <<live, next, child, valueint>>
    BY DEF ArrayDone, links, values
  <1>2. /\ a \in New /\ IsForest(next, child, prev, New, {a}) /\ building \in Builder
        /\ EndsWith(next, child, New, a, l) /\ New \in SUBSET Item
    BY <1>1, Building
  <1>3. building.done = call.count
    <2>1. building.done + building.left = call.count
      BY <1>1 DEF ElementsInv
    <2>2. building.done \in Nat
      BY <1>2 DEF Builder
    <2>3. QED BY <1>1, <2>1, <2>2
  <1>4. /\ IF l = NULL THEN call.count = 0
           ELSE /\ call.count # 0 /\ child[a] # NULL /\ valueint[child[a]] = 1
                /\ valueint[l] = call.count
        /\ \A x \in New \ {a} :
              IF next[x] = NULL THEN x = l ELSE valueint[next[x]] = valueint[x] + 1
    BY <1>1, <1>3 DEF ElementsInv
  <1>5. Kids(a) \subseteq New \ {a}
    BY <1>2, KidsOfTop
  <1>6. l = NULL => child[a] = NULL
    BY <1>2 DEF EndsWith
  <1> HIDE DEF a, l
  <1>7. Numbered(a, call.count)
    <2>1. CASE call.count = 0
      <3>1. l = NULL
        BY <1>4, <2>1
      <3>2. QED BY <1>6, <2>1, <3>1 DEF Numbered
    <2>2. CASE call.count # 0
      <3>1. l # NULL
        BY <1>4, <2>2
      <3>2. child[a] # NULL /\ valueint[child[a]] = 1 /\ valueint[l] = call.count
        BY <1>4, <3>1
      <3>3. ASSUME NEW x \in Kids(a)
            PROVE  IF next[x] = NULL THEN valueint[x] = call.count
                   ELSE valueint[next[x]] = valueint[x] + 1
        BY <1>4, <1>5, <3>2
      <3>4. QED BY <2>2, <3>2, <3>3 DEF Numbered
    <2>3. QED BY <2>1, <2>2
  <1>8. (Numbered(made, call.count))'
    BY <1>1, <1>7 DEF Numbered, Kids, Chain, NextClosed
  <1>9. QED BY <1>8 DEF NumberedInv

LEMMA NextElementsInv ==
    ASSUME CopyInv, CopyInv', ValuesInv, ElementsInv, NumberedInv, [CopySortNext]_allVars
    PROVE  ElementsInv' /\ NumberedInv'
  <1>1. ASSUME NEW count \in Count, MakeArray(count) PROVE ElementsInv' /\ NumberedInv'
    <2>1. /\ call.name = "none" /\ MemoryLeft /\ live' = live \cup {Fresh} /\ before' = before
          /\ building' = [array |-> Fresh, last |-> NULL, left |-> count, done |-> 0]
          /\ call' = [name |-> "array", count |-> count]
      BY <1>1 DEF MakeArray, CreateArrayOf
    <2>2. New = {}
      BY <2>1 DEF CopyInv, CallInv, New
    <2>3. New' \subseteq {Fresh}
      BY <2>1, <2>2 DEF New
    <2>4. count \in Nat
      BY CountsAreLengths
    <2> DEFINE x == Fresh
    <2>5. building' = [array |-> x, last |-> NULL, left |-> count, done |-> 0]
      BY <2>1
    <2>6. New' \subseteq {x} /\ x \in Item
      BY <2>1, <2>3, FreshFree
    <2> HIDE DEF x
    <2>7. /\ building'.array = x /\ building'.last = NULL /\ building'.left = count
          /\ building'.done = 0
      BY <2>5
    <2>8. building' # NULL
      <3>1. [array |-> x, last |-> NULL, left |-> count, done |-> 0] \in Builder
        BY <2>4, <2>6 DEF Builder
      <3>2. QED BY <2>5, <3>1, NullIsNoBuilder
    <2>9. call'.name = "array" /\ call'.count = count
      BY <2>1
    <2>10. ElementsInv'
      BY <2>4, <2>6, <2>7, <2>9 DEF ElementsInv
    <2>11. QED BY <2>8, <2>10 DEF NumberedInv
  <1>2. ASSUME NEW item \in Item, NEW recurse \in BOOLEAN, Copying(item, recurse)
        PROVE  ElementsInv' /\ NumberedInv'
    <2>1. /\ building = NULL /\ building' = building
          /\ call' = [name |-> "copy", item |-> item, recurse |-> recurse]
      BY <1>2 DEF Copying, Duplicate, Idle
    <2>2. QED BY <2>1 DEF ElementsInv, NumberedInv
  <1>3. CASE Making
    <2>1. MakeStep /\ UNCHANGED <<call, before>>
      BY <1>3 DEF Making
    <2>2. CASE AddElement
      <3>1. ElementsInv'
        BY <2>1, <2>2, AddElementNumbers
      <3>2. building' # NULL
        <4>1. building' \in Builder
          <5>1. building \in Builder /\ MemoryLeft /\ building.left > 0
            BY <2>2, Building DEF AddElement
          <5>2. building.left - 1 \in Nat /\ building.done + 1 \in Nat /\ Fresh \in Item
            BY <5>1, FreshFree DEF Builder
          <5> DEFINE x == Fresh
          <5>3. building' = [building EXCEPT !.last = x, !.left = @ - 1, !.done = @ + 1]
                /\ x \in Item
            BY <2>2, <5>2 DEF AddElement, LastElement
          <5> HIDE DEF x
          <5>4. QED BY <5>1, <5>2, <5>3 DEF Builder
        <4>2. QED BY <4>1, NullIsNoBuilder
      <3>3. QED BY <3>1, <3>2 DEF NumberedInv
    <2>3. CASE AddElementFails
      <3>1. building' = NULL /\ made' = NULL
        BY <2>3 DEF AddElementFails
      <3>2. QED BY <3>1 DEF ElementsInv, NumberedInv
    <2>4. CASE ArrayDone
      <3>1. building' = NULL
        BY <2>4 DEF ArrayDone
      <3>2. QED BY <2>1, <2>4, <3>1, ArrayDoneNumbers DEF ElementsInv
    <2>5. CASE ~(AddElement \/ AddElementFails \/ ArrayDone)
      <3>1. copying # <<>> /\ building' = building
        BY <2>1, <2>5 DEF MakeStep, NewItem, CopyText, CopyName, AllocationFails, NextKid,
           LinkKid, KidFails, DuplicateDone, At
      <3>2. building = NULL /\ call.name = "copy"
        BY <3>1 DEF CopyInv, CallInv
      <3>3. QED BY <2>1, <3>1, <3>2 DEF ElementsInv, NumberedInv
    <2>6. QED BY <2>2, <2>3, <2>4, <2>5
  <1>4. ASSUME NEW object \in Item, NEW sensitive \in BOOLEAN, SortObject(object, sensitive)
        PROVE  ElementsInv' /\ NumberedInv'
    <2>1. /\ call' = [name |-> "sort", object |-> object, sensitive |-> sensitive]
          /\ building = NULL /\ building' = building
      BY <1>4 DEF SortObject, Idle
    <2>2. QED BY <2>1 DEF ElementsInv, NumberedInv
  <1>5. CASE Sorting
    <2>1. sorting # <<>> /\ UNCHANGED <<call, building>>
      BY <1>5 DEF Sorting, S!SortStep, S!TestSorted, S!WalkTwo, S!Split, S!Merge,
                  S!AppendRest, S!Running
    <2>2. call.name = "sort"
      BY <2>1 DEF CopyInv, CallInv
    <2>3. building = NULL
      BY <2>2 DEF CopyInv, CallInv
    <2>4. QED BY <2>1, <2>2, <2>3 DEF ElementsInv, NumberedInv
  <1>6. CASE UNCHANGED allVars
    <2>1. UNCHANGED <<live, next, child, valueint, building, made, call, before>>
      BY <1>6 DEF allVars, dupVars, vars, values
    <2>2. ElementsInv'
      BY <2>1 DEF ElementsInv, New
    <2>3. NumberedInv'
      BY <2>1 DEF NumberedInv, Numbered, Kids, Chain, NextClosed
    <2>4. QED BY <2>2, <2>3
  <1>7. QED BY <1>1, <1>2, <1>3, <1>4, <1>5, <1>6 DEF CopySortNext

-----------------------------------------------------------------------------
(* Always.                                                                  *)

CopiedInv == MirrorInv /\ MirrorsInv /\ ValuesInv
BuiltInv  == ElementsInv /\ NumberedInv

LEMMA InitContent == CopySortInit => CopiedInv /\ BuiltInv
  <1> SUFFICES ASSUME CopySortInit PROVE CopiedInv /\ BuiltInv
    OBVIOUS
  <1>1. copying = <<>> /\ building = NULL /\ call.name = "none"
    BY DEF CopySortInit
  <1>2. valueint = [x \in Item |-> IF x \in live THEN x ELSE 0]
    BY DEF CopySortInit
  <1>3. QED BY <1>1, <1>2 DEF CopiedInv, BuiltInv, MirrorInv, MirrorsInv, ValuesInv, ElementsInv,
                              NumberedInv

LEMMA AlwaysContent == CopySortSpec => [](CopiedInv /\ BuiltInv)
  <1>1. CopySortInit => CopiedInv /\ BuiltInv
    BY InitContent
  <1>2. /\ CopyInv /\ CopyInv' /\ OriginalInv /\ CopiedInv /\ BuiltInv
        /\ [CopySortNext]_allVars /\ [KeepsSource]_allVars
        => (CopiedInv /\ BuiltInv)'
    <2> SUFFICES ASSUME CopyInv, CopyInv', OriginalInv, CopiedInv, BuiltInv,
                        [CopySortNext]_allVars, [KeepsSource]_allVars
                 PROVE  (CopiedInv /\ BuiltInv)'
      OBVIOUS
    <2>1. KeepsSource
      <3>1. CASE UNCHANGED allVars
        BY <3>1 DEF allVars, dupVars, vars, values, names, KeepsSource, CopyInv, TypesInv
      <3>2. QED BY <3>1
    <2>2. MirrorInv' /\ MirrorsInv' /\ ValuesInv'
      BY <2>1, NextMirrorInv DEF CopiedInv
    <2>3. ElementsInv' /\ NumberedInv'
      BY NextElementsInv DEF CopiedInv, BuiltInv
    <2>4. QED BY <2>2, <2>3 DEF CopiedInv, BuiltInv
  <1>3. QED BY <1>1, <1>2, AlwaysCopyInv, AlwaysOriginalInv, PTL DEF CopySortSpec

(* When cJSON_Duplicate returns an item, it is a copy of what was asked for:*)
(* of every item below, a reference's members included, the kind, number,   *)
(* text and name, and its place among the others.  When an array constructor*)
(* returns one, it holds the numbers in their order.  Both own all that was *)
(* allocated, and are linked both ways (cJSON.c:2215-2436).                 *)
THEOREM MakesRight == CopySortSpec => []MadeRight
  <1>1. CopyInv /\ OriginalInv /\ BackInv /\ CopiedInv /\ BuiltInv => MadeRight
    <2> SUFFICES ASSUME CopyInv, OriginalInv, BackInv, CopiedInv, BuiltInv,
                        Idle, made # NULL, call.name \in {"array", "copy"}
                 PROVE  /\ MadeWhole
                        /\ \A x \in live \ before.items :
                              /\ next[x] # NULL => prev[next[x]] = x
                              /\ child[x] # NULL => prev[child[x]] = NULL
                        /\ NameFlagsAgree
                        /\ call.name = "array" => Numbered(made, call.count)
                        /\ call.name = "copy" => Mirrors(call.item, call.recurse)
      BY DEF MadeRight
    <2>1. MadeWhole
      BY DEF CopyInv, ReturnInv
    <2>2. Linked(next, prev, child, New)
      BY DEF BackInv
    <2>3. NameFlagsAgree
      BY DEF OriginalInv, NamesRight
    <2>4. call.name = "array" => Numbered(made, call.count)
      BY DEF Idle, BuiltInv, NumberedInv
    <2>5. call.name = "copy" => Mirrors(call.item, call.recurse)
      BY DEF Idle, CopiedInv, MirrorsInv
    <2>6. QED BY <2>1, <2>2, <2>3, <2>4, <2>5 DEF Linked, New
  <1>2. QED BY <1>1, AlwaysCopyInv, AlwaysOriginalInv, LinkedBothWays, AlwaysContent, PTL

(* A name that is freed with a copy is one that was made for it: the flag   *)
(* cJSON_StringIsConst of every item, half made ones included, says what    *)
(* its name is (cJSON.c:2378, 2389-2404).                                   *)
THEOREM CopiedNamesFlagged == CopySortSpec => []NameFlagsAgree
  <1>1. OriginalInv => NameFlagsAgree
    BY DEF OriginalInv, NamesRight
  <1>2. QED BY <1>1, AlwaysOriginalInv, PTL

(* cJSON_Duplicate reads items of the original only, never one of the half  *)
(* made copy or one that it has freed (cJSON.c:2381-2406).                  *)
THEOREM ReadsOriginalOnly == CopySortSpec => []Reads(copying, before.items)
  <1>1. OriginalInv => Reads(copying, before.items)
    BY DEF OriginalInv
  <1>2. QED BY <1>1, AlwaysOriginalInv, PTL
=============================================================================
