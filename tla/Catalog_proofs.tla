--------------------------- MODULE Catalog_proofs ---------------------------
(***************************************************************************)
(* Proofs about Catalog, for any services, titles, profiles and editors.   *)
(***************************************************************************)
EXTENDS Catalog, SequenceTheorems, WellFoundedInduction, TLAPS

-----------------------------------------------------------------------------
(* The inductive invariant *)

Edit == [op : EditOps, s : Services \cup {NoId}, title : Titles \cup {NoId},
         p : Profiles \cup {NoId}, list : Seq(Entry), version : 0 .. MaxVersion,
         raced : BOOLEAN, replaced : BOOLEAN]

\* What the calls in progress have looked up exists.
EditOK(e, stored) ==
  /\ e.op \in {"create", "rename"} => e.title \in Titles
  /\ e.op = "create" => e.s = NoId
  /\ e.op = "rename" => e.s \in stored
  /\ e.op \in {"push", "price", "splice"} => e.p \in Profiles /\ e.s \in Services
  /\ e.op \in {"price", "splice"} => Listed(e.list, e.s)

CatTyped ==
  /\ service \in [Services -> ServiceDoc]
  /\ list \in [Profiles -> Seq(Entry)]
  /\ version \in [Profiles -> 0 .. MaxVersion]
  /\ edit \in [Editors -> Edit]
  /\ \A k \in Editors : EditOK(edit[k], InCatalog)
  /\ mixed \subseteq Profiles

\* A call that has checked a title has missed nothing, or knows it.
ChecksSee ==
  \A k \in Editors : edit[k].op \in {"create", "rename"} /\ ~ edit[k].raced =>
    \A x \in Active \ {edit[k].s} : service[x].name # edit[k].title

\* What PricesFit and TwiceOnlyByRace say of one list.
Fits(l) == \A i \in DOMAIN l : l[i].serviceId # NoId /\ l[i].price = l[i].serviceId
Excused(e, f) == e.raced \/ f.raced \/ (e.doubled /\ f.doubled)
Apart(l) ==
  \A i, j \in DOMAIN l : i # j /\ l[i].serviceId = l[j].serviceId => Excused(l[i], l[j])
Fine(l) == Fits(l) /\ Apart(l)

\* The same services at the same places.
Alike(l, m) == Len(l) = Len(m) /\ \A i \in 1 .. Len(l) : l[i].serviceId = m[i].serviceId

Holds(k) == edit[k].op \in {"price", "splice"}

\* A list that is in order was so when it was loaded.
CopiesAreFine == \A k \in Editors : Holds(k) /\ edit[k].p \notin mixed => Fine(edit[k].list)

\* No copy is newer than its document, and one with the version of its document has the
\* same services, unless updateBarber replaced the list.
CopiesAgree ==
  \A k \in Editors : Holds(k) =>
    /\ edit[k].version <= version[edit[k].p]
    /\ Loaded(k) /\ ~ edit[k].replaced /\ edit[k].p \notin mixed =>
         Alike(list[edit[k].p], edit[k].list)

\* A service that is about to be added is not in the list, or the call was overtaken.
AdditionsAreNew ==
  \A k \in Editors : edit[k].op = "push" /\ ~ edit[k].raced /\ edit[k].p \notin mixed =>
    ~ Listed(list[edit[k].p], edit[k].s)

ListsAreFine == \A p \in Profiles \ mixed : Fine(list[p])

TitleInv == CatTyped /\ ChecksSee /\ TitlesDiffer
ListInv == CatTyped /\ ListsAreFine /\ CopiesAreFine /\ CopiesAgree /\ AdditionsAreNew

-----------------------------------------------------------------------------
(* Lists *)

\* IndexOf finds the first element for a service that is listed.
LEMMA FirstIndex ==
  ASSUME NEW S, NEW l \in Seq(S), NEW s, Listed(l, s)
  PROVE  IndexOf(l, s) \in DOMAIN l /\ l[IndexOf(l, s)].serviceId = s
<1> DEFINE T == {i \in DOMAIN l : l[i].serviceId = s}
<1>1. DOMAIN l = 1 .. Len(l) /\ Len(l) \in Nat
  BY LenProperties
<1>2. T \subseteq Nat /\ T # {}
  BY <1>1 DEF Listed
<1>3. PICK i \in T : \A j \in T : ~ (<<j, i>> \in OpToRel(<, Nat))
  BY <1>2, WFMin, NatLessThanWellFounded, Zenon
<1>4. \A j \in T : ~ (j < i)
  BY <1>2, <1>3 DEF OpToRel
<1>5. \A j \in 1 .. (i - 1) : l[j].serviceId # s
  BY <1>1, <1>2, <1>4
<1>6. QED
  BY <1>5 DEF IndexOf

\* Entries and their fields.
LEMMA PricedEntry ==
  ASSUME NEW s \in Services, NEW r \in BOOLEAN
  PROVE  LET e == [Priced(s) EXCEPT !.raced = r]
         IN  e \in Entry /\ e.serviceId = s /\ e.price = s /\ e.raced = r
BY DEF Priced, NoEntry, Entry

\* A pushed service is listed once, unless it was overtaken.
LEMMA AppendFine ==
  ASSUME NEW l \in Seq(Entry), NEW s \in Services, NEW r \in BOOLEAN
  PROVE  LET m == Append(l, [Priced(s) EXCEPT !.raced = r])
         IN  /\ m \in Seq(Entry)
             /\ \A t : Listed(m, t) => Listed(l, t) \/ t = s
             /\ Fine(l) /\ (r \/ ~ Listed(l, s)) => Fine(m)
<1>1. PICK e : e = [Priced(s) EXCEPT !.raced = r]
  OBVIOUS
<1>2. e \in Entry /\ e.serviceId = s /\ e.price = s /\ e.raced = r /\ s # NoId
  BY <1>1, PricedEntry, CatalogConstants
<1>3. PICK m : m = Append(l, e)
  OBVIOUS
<1>4. /\ Len(l) \in Nat /\ DOMAIN l = 1 .. Len(l)
      /\ m \in Seq(Entry) /\ DOMAIN m = 1 .. (Len(l) + 1)
      /\ \A i \in 1 .. Len(l) : m[i] = l[i]
      /\ m[Len(l) + 1] = e
  BY <1>2, <1>3, AppendProperties, LenProperties
<1>5. \A i \in DOMAIN m : i \in DOMAIN l \/ i = Len(l) + 1
  BY <1>4
<1>6. ASSUME NEW t, Listed(m, t) PROVE Listed(l, t) \/ t = s
  BY <1>2, <1>4, <1>5, <1>6 DEF Listed
<1>7. ASSUME Fine(l), r \/ ~ Listed(l, s) PROVE Fine(m)
  <2>1. Fits(m)
    BY <1>2, <1>4, <1>5, <1>7 DEF Fine, Fits
  <2>2. ASSUME NEW i \in DOMAIN m, NEW j \in DOMAIN m, i # j, m[i].serviceId = m[j].serviceId
        PROVE  Excused(m[i], m[j])
    <3>1. CASE i \in DOMAIN l /\ j \in DOMAIN l
      BY <1>4, <1>7, <2>2, <3>1 DEF Fine, Apart
    <3>2. CASE i = Len(l) + 1 /\ j \in DOMAIN l
      BY <1>2, <1>4, <1>7, <2>2, <3>2 DEF Listed, Excused
    <3>3. CASE j = Len(l) + 1 /\ i \in DOMAIN l
      BY <1>2, <1>4, <1>7, <2>2, <3>3 DEF Listed, Excused
    <3>4. QED
      BY <1>5, <2>2, <3>1, <3>2, <3>3
  <2>3. QED
    BY <2>1, <2>2 DEF Fine, Apart
<1>8. QED
  BY <1>1, <1>3, <1>4, <1>6, <1>7

\* A price set at a place of the list changes no service of it.
LEMMA SetPriceFine ==
  ASSUME NEW l \in Seq(Entry), NEW i \in Nat \ {0}, NEW s \in Services
  PROVE  /\ SetPrice(l, i, s) \in Seq(Entry)
         /\ i \in DOMAIN l => Alike(SetPrice(l, i, s), l)
         /\ i \in DOMAIN l /\ l[i].serviceId = s /\ Fine(l) => Fine(SetPrice(l, i, s))
<1>1. PICK n : n = IF i > Len(l) THEN i ELSE Len(l)
  OBVIOUS
<1>2. PICK m : m = SetPrice(l, i, s)
  OBVIOUS
<1> DEFINE old(j) == IF j <= Len(l) THEN l[j] ELSE NoEntry
<1>3. m = [j \in 1 .. n |-> IF j = i THEN [old(j) EXCEPT !.price = s] ELSE old(j)]
  BY <1>1, <1>2 DEF SetPrice
<1>4. Len(l) \in Nat /\ DOMAIN l = 1 .. Len(l) /\ \A j \in 1 .. Len(l) : l[j] \in Entry
  BY LenProperties, ElementOfSeq
<1>5. n \in Nat /\ (i \in DOMAIN l => n = Len(l))
  <2>1. CASE i > Len(l)
    <3>1. n = i /\ i \in Nat
      BY <1>1, <2>1
    <3>2. i \notin DOMAIN l
      BY <1>4, <2>1
    <3>3. QED
      BY <3>1, <3>2
  <2>2. CASE ~ (i > Len(l))
    BY <1>1, <1>4, <2>2
  <2>3. QED
    BY <2>1, <2>2
<1>6. \A j \in 1 .. n : old(j) \in Entry
  <2>1. NoEntry \in Entry
    BY DEF NoEntry, Entry
  <2>2. ASSUME NEW j \in 1 .. n PROVE old(j) \in Entry
    <3>1. CASE j <= Len(l)
      <4>1. j \in 1 .. Len(l)
        BY <1>4, <3>1
      <4>2. old(j) = l[j]
        BY <3>1
      <4>3. QED
        BY <1>4, <4>1, <4>2
    <3>2. CASE ~ (j <= Len(l))
      BY <2>1, <3>2
    <3>3. QED
      BY <3>1, <3>2
  <2>3. QED
    BY <2>2
<1>7. \A e \in Entry : /\ [e EXCEPT !.price = s] \in Entry
                       /\ [e EXCEPT !.price = s].serviceId = e.serviceId
                       /\ [e EXCEPT !.price = s].price = s
                       /\ [e EXCEPT !.price = s].raced = e.raced
                       /\ [e EXCEPT !.price = s].doubled = e.doubled
  BY DEF Entry
<1>8. m \in Seq(Entry) /\ Len(m) = n /\ DOMAIN m = 1 .. n
  <2>1. m \in [1 .. n -> Entry]
    BY <1>3, <1>6, <1>7
  <2>2. QED
    BY <1>5, <2>1
<1>9. ASSUME i \in DOMAIN l
      PROVE  /\ n = Len(l)
             /\ \A j \in 1 .. n : /\ m[j].serviceId = l[j].serviceId
                                  /\ m[j].raced = l[j].raced /\ m[j].doubled = l[j].doubled
                                  /\ m[j].price = IF j = i THEN s ELSE l[j].price
  <2>1. n = Len(l) /\ \A j \in 1 .. n : old(j) = l[j] /\ l[j] \in Entry
    <3>1. n = Len(l)
      BY <1>5, <1>9
    <3>2. ASSUME NEW j \in 1 .. n PROVE j <= Len(l) /\ l[j] \in Entry
      BY <1>4, <3>1
    <3>3. QED
      BY <3>1, <3>2
  <2>2. QED
    BY <1>3, <1>7, <2>1
<1>10. ASSUME i \in DOMAIN l PROVE Alike(m, l)
  BY <1>8, <1>9, <1>10 DEF Alike
<1>11. ASSUME i \in DOMAIN l, l[i].serviceId = s, Fine(l) PROVE Fine(m)
  <2>1. Fits(m)
    BY <1>4, <1>8, <1>9, <1>11 DEF Fine, Fits
  <2>2. Apart(m)
    BY <1>4, <1>8, <1>9, <1>11 DEF Fine, Apart, Excused
  <2>3. QED
    BY <2>1, <2>2 DEF Fine
<1>12. QED
  BY <1>2, <1>8, <1>10, <1>11

\* A list without one of its elements.
LEMMA RemoveFine ==
  ASSUME NEW l \in Seq(Entry), NEW i \in DOMAIN l
  PROVE  /\ RemoveAt(l, i) \in Seq(Entry)
         /\ \A t : Listed(RemoveAt(l, i), t) => Listed(l, t)
         /\ Fine(l) => Fine(RemoveAt(l, i))
<1>1. Len(l) \in Nat /\ DOMAIN l = 1 .. Len(l) /\ i \in 1 .. Len(l)
      /\ \A j \in 1 .. Len(l) : l[j] \in Entry
  BY LenProperties, ElementOfSeq
<1>2. PICK a : a = SubSeq(l, 1, i - 1)
  OBVIOUS
<1>3. PICK b : b = SubSeq(l, i + 1, Len(l))
  OBVIOUS
<1>4. a \in Seq(Entry) /\ Len(a) = i - 1 /\ \A j \in 1 .. (i - 1) : a[j] = l[j]
  <2>1. (i - 1) - 1 + 1 = i - 1 /\ (1 <= i - 1 \/ i - 1 = 0)
    BY <1>1
  <2>2. /\ SubSeq(l, 1, i - 1) \in Seq(Entry)
        /\ Len(SubSeq(l, 1, i - 1)) = IF 1 <= i - 1 THEN (i - 1) - 1 + 1 ELSE 0
        /\ \A j \in 1 .. ((i - 1) - 1 + 1) : SubSeq(l, 1, i - 1)[j] = l[1 + j - 1]
    BY <1>1, SubSeqProperties
  <2>3. QED
    BY <1>1, <1>2, <2>1, <2>2
<1>5. b \in Seq(Entry) /\ Len(b) = Len(l) - i /\ \A j \in 1 .. (Len(l) - i) : b[j] = l[i + j]
  <2>1. /\ SubSeq(l, i + 1, Len(l)) \in Seq(Entry)
        /\ Len(SubSeq(l, i + 1, Len(l))) = IF i + 1 <= Len(l) THEN Len(l) - (i + 1) + 1 ELSE 0
        /\ \A j \in 1 .. (Len(l) - (i + 1) + 1) :
             SubSeq(l, i + 1, Len(l))[j] = l[(i + 1) + j - 1]
    BY <1>1, SubSeqProperties
  <2>2. QED
    BY <1>1, <1>3, <2>1
<1>6. PICK m : m = RemoveAt(l, i)
  OBVIOUS
<1>7. m = a \o b
  BY <1>2, <1>3, <1>6 DEF RemoveAt
<1>8. /\ m \in Seq(Entry) /\ DOMAIN m = 1 .. (Len(l) - 1)
      /\ \A j \in 1 .. (Len(l) - 1) : m[j] = IF j < i THEN l[j] ELSE l[j + 1]
  <2>1. /\ m \in Seq(Entry) /\ Len(m) = Len(a) + Len(b)
        /\ \A j \in 1 .. Len(a) + Len(b) : m[j] = IF j <= Len(a) THEN a[j] ELSE b[j - Len(a)]
    BY <1>4, <1>5, <1>7, ConcatProperties
  <2>2. DOMAIN m = 1 .. Len(m)
    BY <2>1, LenProperties
  <2>3. ASSUME NEW j \in 1 .. (Len(l) - 1) PROVE m[j] = IF j < i THEN l[j] ELSE l[j + 1]
    <3>1. CASE j < i
      BY <1>1, <1>4, <1>5, <2>1, <3>1
    <3>2. CASE ~ (j < i)
      <4>1. j - (i - 1) \in 1 .. (Len(l) - i) /\ i + (j - (i - 1)) = j + 1
        BY <1>1, <3>2
      <4>2. b[j - (i - 1)] = l[j + 1]
        BY <1>5, <4>1
      <4>3. QED
        BY <1>1, <1>4, <1>5, <2>1, <3>2, <4>2
    <3>3. QED
      BY <3>1, <3>2
  <2>4. QED
    BY <1>1, <1>4, <1>5, <2>1, <2>2, <2>3
<1>9. ASSUME NEW j \in DOMAIN m
      PROVE  \E k \in DOMAIN l : m[j] = l[k] /\ k = (IF j < i THEN j ELSE j + 1)
  BY <1>1, <1>8
<1>10. ASSUME NEW t, Listed(m, t) PROVE Listed(l, t)
  BY <1>9, <1>10 DEF Listed
<1>11. ASSUME Fine(l) PROVE Fine(m)
  <2>1. Fits(m)
    BY <1>9, <1>11 DEF Fine, Fits
  <2>2. ASSUME NEW x \in DOMAIN m, NEW y \in DOMAIN m, x # y, m[x].serviceId = m[y].serviceId
        PROVE  Excused(m[x], m[y])
    <3>1. PICK v \in DOMAIN l : m[x] = l[v] /\ v = (IF x < i THEN x ELSE x + 1)
      BY <1>9
    <3>2. PICK w \in DOMAIN l : m[y] = l[w] /\ w = (IF y < i THEN y ELSE y + 1)
      BY <1>9
    <3>3. v # w
      BY <1>1, <1>8, <2>2, <3>1, <3>2
    <3>4. QED
      BY <1>11, <2>2, <3>1, <3>2, <3>3 DEF Fine, Apart
  <2>3. QED
    BY <2>1, <2>2 DEF Fine, Apart
<1>12. QED
  BY <1>6, <1>8, <1>10, <1>11

\* A service is twice in the list of a body only if the body names it twice.
LEMMA BodyFine ==
  ASSUME NEW l \in Bodies
  PROVE  l \in Seq(Entry) /\ Fine(l)
<1>1. PICK ss \in Listings : l = Body(ss)
  BY DEF Bodies
<1>2. PICK n \in Nat : ss \in [1 .. n -> Services]
  BY CatalogConstants DEF Listings
<1>3. ASSUME NEW s \in Services, NEW d \in BOOLEAN
      PROVE  LET e == [Priced(s) EXCEPT !.doubled = d]
             IN  e \in Entry /\ e.serviceId = s /\ e.price = s /\ e.doubled = d /\ s # NoId
  BY CatalogConstants DEF Priced, NoEntry, Entry
<1>4. ASSUME NEW i \in 1 .. n
      PROVE  /\ l[i] \in Entry /\ l[i].serviceId = ss[i] /\ l[i].price = ss[i] /\ ss[i] # NoId
             /\ l[i].doubled = (\E j \in 1 .. n : j # i /\ ss[j] = ss[i])
  BY <1>1, <1>2, <1>3 DEF Body
<1>5. DOMAIN l = 1 .. n /\ l = [i \in 1 .. n |-> l[i]]
  BY <1>1, <1>2 DEF Body
<1>6. l \in Seq(Entry)
  <2>1. l \in [1 .. n -> Entry]
    BY <1>4, <1>5
  <2>2. QED
    BY <2>1
<1>7. ASSUME NEW i \in DOMAIN l, NEW j \in DOMAIN l, i # j, l[i].serviceId = l[j].serviceId
      PROVE  Excused(l[i], l[j])
  <2>1. i \in 1 .. n /\ j \in 1 .. n /\ ss[i] = ss[j]
    BY <1>4, <1>5, <1>7
  <2>2. l[i].doubled /\ l[j].doubled
    BY <1>4, <1>7, <2>1
  <2>3. QED
    BY <2>2 DEF Excused
<1>8. Fits(l)
  BY <1>4, <1>5 DEF Fits
<1>9. QED
  BY <1>6, <1>7, <1>8 DEF Fine, Apart

-----------------------------------------------------------------------------
(* What a step does to the calls in progress *)

\* A call goes on, but may be overtaken by another, or hold a list that was replaced.
Marked(e, f) ==
  /\ f \in Edit /\ f.op = e.op /\ f.s = e.s /\ f.title = e.title
  /\ f.p = e.p /\ f.list = e.list /\ f.version = e.version
  /\ e.raced => f.raced
  /\ e.replaced => f.replaced

\* Every call goes on, ends, or begins and has looked up what exists.
EditsMove ==
  /\ edit' = [k \in Editors |-> edit'[k]]
  /\ \A k \in Editors : \/ Marked(edit[k], edit'[k])
                        \/ edit'[k] = NoEdit
                        \/ edit'[k] \in Edit /\ EditOK(edit'[k], InCatalog')

\* No call.
LEMMA NoEditType == NoEdit \in Edit /\ NoEdit.op = "idle" /\ NoEdit.s = NoId
BY CatalogConstants DEF NoEdit, Edit, EditOps

\* Marking a call.
LEMMA MarkCall ==
  ASSUME NEW e \in Edit, NEW r \in BOOLEAN, NEW x \in BOOLEAN
  PROVE  /\ Marked(e, e)
         /\ Marked(e, [e EXCEPT !.raced = TRUE]) /\ [e EXCEPT !.raced = TRUE].raced
         /\ x => Marked(e, [e EXCEPT !.replaced = x, !.raced = e.raced \/ r])
BY DEF Marked, Edit

\* Types of the calls, when no service disappears.
LEMMA EditsTyped ==
  ASSUME CatTyped, EditsMove, InCatalog \subseteq InCatalog'
  PROVE  edit' \in [Editors -> Edit] /\ \A k \in Editors : EditOK(edit'[k], InCatalog')
<1>1. ASSUME NEW k \in Editors PROVE edit'[k] \in Edit /\ EditOK(edit'[k], InCatalog')
  <2>1. EditOK(edit[k], InCatalog)
    BY DEF CatTyped
  <2>2. CASE Marked(edit[k], edit'[k])
    BY <2>1, <2>2 DEF Marked, EditOK
  <2>3. CASE edit'[k] = NoEdit
    BY <2>3, NoEditType DEF EditOK
  <2>4. QED
    BY <2>2, <2>3 DEF EditsMove
<1>2. QED
  BY <1>1 DEF EditsMove

\* A call begins.
LEMMA OpenMoves ==
  ASSUME CatTyped, NEW k \in Editors, NEW new \in Edit, Open(k, new), EditOK(new, InCatalog')
  PROVE  /\ EditsMove /\ edit'[k] = new
         /\ \A j \in Editors \ {k} : edit'[j] = edit[j]
<1>1. edit \in [Editors -> Edit] /\ edit' = [edit EXCEPT ![k] = new]
  BY DEF CatTyped, Open
<1>2. edit'[k] = new /\ \A j \in Editors \ {k} : edit'[j] = edit[j] /\ edit[j] \in Edit
  BY <1>1
<1>3. \A j \in Editors \ {k} : Marked(edit[j], edit'[j])
  BY <1>2, MarkCall
<1>4. QED
  BY <1>1, <1>2, <1>3 DEF EditsMove

\* A call ends.
LEMMA CloseMoves ==
  ASSUME CatTyped, NEW k \in Editors, Close(k)
  PROVE  /\ EditsMove /\ edit'[k] = NoEdit
         /\ \A j \in Editors \ {k} : edit'[j] = edit[j]
<1>1. edit \in [Editors -> Edit] /\ edit' = [edit EXCEPT ![k] = NoEdit]
  BY DEF CatTyped, Close
<1>2. edit'[k] = NoEdit /\ \A j \in Editors \ {k} : edit'[j] = edit[j] /\ edit[j] \in Edit
  BY <1>1
<1>3. \A j \in Editors \ {k} : Marked(edit[j], edit'[j])
  BY <1>2, MarkCall
<1>4. QED
  BY <1>1, <1>2, <1>3 DEF EditsMove

-----------------------------------------------------------------------------
(* Titles *)

Watches(e) == e.op \in {"create", "rename"}

\* Services stay as they are, and so do the calls that have checked a title.
TitleSame ==
  service' = service /\ \A k \in Editors : Watches(edit'[k]) => edit'[k] = edit[k]

\* One call checks a title.
TitleChecked(k) ==
  /\ service' = service
  /\ \A j \in Editors \ {k} : edit'[j] = edit[j]
  /\ ~ TitleTaken(edit'[k].title, edit'[k].s)

\* Service s becomes d: calls that have checked its title know, and if it is active no
\* other has the title, or it knows.
TitleSet(s, d) ==
  /\ s \in Services /\ d \in ServiceDoc /\ d.stored /\ service' = [service EXCEPT ![s] = d]
  /\ \A k \in Editors : Watches(edit'[k]) =>
       /\ Marked(edit[k], edit'[k])
       /\ d.active /\ edit[k].title = d.name /\ edit[k].s # s => edit'[k].raced
  /\ d.active /\ ~ d.revived /\ ~ d.raced => \A x \in Active \ {s} : service[x].name # d.name

\* Services are not deleted.
LEMMA CatalogGrows ==
  ASSUME CatTyped, NEW s, NEW d, TitleSet(s, d)
  PROVE  service' \in [Services -> ServiceDoc] /\ InCatalog \subseteq InCatalog'
BY DEF CatTyped, TitleSet, InCatalog, ServiceDoc

\* Titles stay apart while nothing happens to them.
LEMMA TitleSameStep ==
  ASSUME TitleInv, TitleSame
  PROVE  ChecksSee' /\ TitlesDiffer'
<1>1. service' = service /\ Active' = Active
  BY DEF TitleSame, Active, InCatalog
<1>2. TitlesDiffer'
  BY <1>1 DEF TitleInv, TitlesDiffer
<1>3. ChecksSee'
  BY <1>1 DEF TitleInv, ChecksSee, TitleSame, Watches
<1>4. QED
  BY <1>2, <1>3

\* A check sees the titles of the moment.
LEMMA TitleCheckedStep ==
  ASSUME TitleInv, NEW k \in Editors, TitleChecked(k)
  PROVE  ChecksSee' /\ TitlesDiffer'
<1>1. service' = service /\ Active' = Active
  BY DEF TitleChecked, Active, InCatalog
<1>2. TitlesDiffer'
  BY <1>1 DEF TitleInv, TitlesDiffer
<1>3. ChecksSee'
  BY <1>1 DEF TitleInv, ChecksSee, TitleChecked, TitleTaken
<1>4. QED
  BY <1>2, <1>3

\* A service that changes meets no other with its title unknowingly.
LEMMA TitleSetStep ==
  ASSUME TitleInv, NEW s, NEW d, TitleSet(s, d)
  PROVE  ChecksSee' /\ TitlesDiffer'
<1>1. /\ s \in Services /\ service'[s] = d
      /\ \A x \in Services \ {s} : service'[x] = service[x]
  BY DEF TitleInv, CatTyped, TitleSet
<1>2. /\ \A x \in Active' : x \in Services
      /\ \A x \in Active' \ {s} : x \in Active /\ service'[x] = service[x]
      /\ s \in Active' => d.active
  BY <1>1 DEF Active, InCatalog
<1>3. ASSUME NEW x \in Active', x # s, d.active, service'[x].name = d.name
      PROVE  d.raced \/ d.revived
  BY <1>2, <1>3 DEF TitleSet
<1>4. TitlesDiffer'
  <2>1. SUFFICES ASSUME NEW x \in Active', NEW y \in Active', x # y,
                        service'[x].name = service'[y].name
                 PROVE  \E z \in {x, y} : service'[z].raced \/ service'[z].revived
    BY DEF TitlesDiffer
  <2>2. CASE x # s /\ y # s
    <3>1. /\ x \in Active /\ service'[x] = service[x]
          /\ y \in Active /\ service'[y] = service[y]
      BY <1>2, <2>2
    <3>2. QED
      BY <2>1, <3>1 DEF TitleInv, TitlesDiffer
  <2>3. CASE x = s
    BY <1>1, <1>2, <1>3, <2>1, <2>3
  <2>4. CASE y = s
    BY <1>1, <1>2, <1>3, <2>1, <2>4
  <2>5. QED
    BY <2>2, <2>3, <2>4
<1>5. ChecksSee'
  <2>1. SUFFICES ASSUME NEW k \in Editors, Watches(edit'[k]), ~ edit'[k].raced,
                        NEW x \in Active', x # edit'[k].s
                 PROVE  service'[x].name # edit'[k].title
    BY DEF ChecksSee, Watches
  <2>2. /\ edit'[k].op = edit[k].op /\ edit'[k].s = edit[k].s
        /\ edit'[k].title = edit[k].title /\ ~ edit[k].raced
    BY <2>1 DEF TitleSet, Marked
  <2>3. CASE x = s
    BY <1>1, <1>2, <2>1, <2>2, <2>3 DEF TitleSet
  <2>4. CASE x # s
    BY <1>2, <2>1, <2>2, <2>4 DEF TitleInv, ChecksSee, Watches
  <2>5. QED
    BY <2>3, <2>4
<1>6. QED
  BY <1>4, <1>5

OnList(e) == e.op \in {"push", "price", "splice"}

\* Lists stay as they are, and so do the calls that hold one or are about to push.
ListSame ==
  /\ UNCHANGED <<list, version, mixed>>
  /\ \A k \in Editors : OnList(edit'[k]) => edit'[k] = edit[k]

\* Calls that have checked the title are marked, the others left alone.
LEMMA MissedMarks ==
  ASSUME CatTyped, NEW s, NEW t, NEW others, NEW k \in Editors
  PROVE  LET f == Missed(s, t, others)[k]
         IN  /\ Marked(edit[k], f)
             /\ ~ Watches(edit[k]) => f = edit[k]
             /\ Watches(f) /\ k \in others /\ edit[k].title = t /\ edit[k].s # s => f.raced
<1>1. PICK e \in Edit : e = edit[k]
  BY DEF CatTyped
<1>2. PICK f : f = Missed(s, t, others)[k]
  OBVIOUS
<1>3. f = IF k \in others /\ e.op \in {"create", "rename"} /\ e.title = t /\ e.s # s
          THEN [e EXCEPT !.raced = TRUE] ELSE e
  BY <1>1, <1>2 DEF Missed
<1>4. /\ Marked(e, e)
      /\ Marked(e, [e EXCEPT !.raced = TRUE]) /\ [e EXCEPT !.raced = TRUE].raced
  BY MarkCall
<1>5. Marked(e, f)
  BY <1>3, <1>4
<1>6. f.op = e.op
  BY <1>5 DEF Marked
<1>7. ~ Watches(e) => f = e
  BY <1>3 DEF Watches
<1>8. Watches(f) /\ k \in others /\ e.title = t /\ e.s # s => f.raced
  BY <1>3, <1>4, <1>6 DEF Watches
<1>9. QED
  BY <1>1, <1>2, <1>5, <1>7, <1>8

\* createService and updateService look for the title.
LEMMA CheckEffect ==
  ASSUME CatTyped, NEW k \in Editors, NEW t \in Titles,
         CreateServiceCheck(k, t) \/ \E s \in Services : UpdateServiceCheck(k, s, t)
  PROVE  EditsMove /\ TitleChecked(k) /\ ListSame /\ UNCHANGED InCatalog
<1>1. service' = service /\ UNCHANGED <<list, version, mixed>> /\ UNCHANGED InCatalog
  BY DEF CreateServiceCheck, UpdateServiceCheck, InCatalog
<1>2. PICK new \in Edit : /\ Open(k, new) /\ Watches(new) /\ new.title = t
                          /\ new.op = "create" => new.s = NoId
                          /\ new.op = "rename" => new.s \in InCatalog
                          /\ ~ TitleTaken(new.title, new.s)
  <2>1. CASE CreateServiceCheck(k, t)
    <3>1. PICK new : new = [NoEdit EXCEPT !.op = "create", !.title = t]
      OBVIOUS
    <3>2. new \in Edit /\ new.op = "create" /\ new.title = t /\ new.s = NoId
      BY <3>1, NoEditType DEF Edit, EditOps
    <3>3. Open(k, new) /\ ~ TitleTaken(t, NoId)
      BY <2>1, <3>1 DEF CreateServiceCheck
    <3>4. Watches(new) /\ new.op # "rename"
      BY <3>2 DEF Watches
    <3>5. QED
      BY <3>2, <3>3, <3>4
  <2>2. ASSUME NEW s \in Services, UpdateServiceCheck(k, s, t)
        PROVE  \E new \in Edit : /\ Open(k, new) /\ Watches(new) /\ new.title = t
                                 /\ new.op = "create" => new.s = NoId
                                 /\ new.op = "rename" => new.s \in InCatalog
                                 /\ ~ TitleTaken(new.title, new.s)
    <3>1. PICK new : new = [NoEdit EXCEPT !.op = "rename", !.s = s, !.title = t]
      OBVIOUS
    <3>2. new \in Edit /\ new.op = "rename" /\ new.title = t /\ new.s = s
      BY <3>1, NoEditType DEF Edit, EditOps
    <3>3. Open(k, new) /\ ~ TitleTaken(t, s) /\ s \in InCatalog
      BY <2>2, <3>1 DEF UpdateServiceCheck
    <3>4. Watches(new) /\ new.op # "create"
      BY <3>2 DEF Watches
    <3>5. QED
      BY <3>2, <3>3, <3>4
  <2>3. QED
    BY <2>1, <2>2
<1>3. EditOK(new, InCatalog')
  BY <1>1, <1>2 DEF EditOK, Watches
<1>4. /\ EditsMove /\ edit'[k] = new
      /\ \A j \in Editors \ {k} : edit'[j] = edit[j]
  BY <1>2, <1>3, OpenMoves
<1>5. QED
  BY <1>1, <1>2, <1>4 DEF TitleChecked, ListSame, OnList, Watches

\* The saves of createService and updateService.
LEMMA SaveEffect ==
  ASSUME TitleInv, NEW k \in Editors,
         UpdateServiceSave(k) \/ \E s \in Services : CreateServiceSave(k, s)
  PROVE  EditsMove /\ ListSame /\ \E s, d : TitleSet(s, d)
<1>1. edit[k] \in Edit /\ edit \in [Editors -> Edit] /\ CatTyped /\ EditOK(edit[k], InCatalog)
  BY DEF TitleInv, CatTyped
<1>2. UNCHANGED <<list, version, mixed>>
  BY DEF UpdateServiceSave, CreateServiceSave
<1>3. PICK t, r : t = edit[k].title /\ r = edit[k].raced
  OBVIOUS
<1>4. PICK s \in Services, d \in ServiceDoc, a \in BOOLEAN :
        /\ service' = [service EXCEPT ![s] = d] /\ d.stored /\ d.name = t /\ d.raced = r
        /\ d.active => a
        /\ edit' = [(IF a THEN Missed(s, t, Editors \ {k}) ELSE edit) EXCEPT ![k] = NoEdit]
        /\ d.active => \A x \in Active \ {s} : x # edit[k].s
        /\ Watches(edit[k])
  <2>1. ASSUME NEW s \in Services, CreateServiceSave(k, s)
        PROVE  \E d \in ServiceDoc, a \in BOOLEAN :
          /\ service' = [service EXCEPT ![s] = d] /\ d.stored /\ d.name = t /\ d.raced = r
          /\ d.active => a
          /\ edit' = [(IF a THEN Missed(s, t, Editors \ {k}) ELSE edit) EXCEPT ![k] = NoEdit]
          /\ d.active => \A x \in Active \ {s} : x # edit[k].s
          /\ Watches(edit[k])
    <3>1. edit[k].op = "create" /\ t \in Titles /\ r \in BOOLEAN
      BY <1>1, <1>3, <2>1 DEF CreateServiceSave, EditOK, Edit
    <3>2. PICK d : d = [NoService EXCEPT !.stored = TRUE, !.name = t, !.active = TRUE, !.raced = r]
      OBVIOUS
    <3>3. d \in ServiceDoc /\ d.stored /\ d.name = t /\ d.raced = r /\ d.active
      BY <3>1, <3>2 DEF NoService, ServiceDoc
    <3>4. \A x \in Active \ {s} : x # edit[k].s
      BY <1>1, <3>1, CatalogConstants DEF EditOK, Active, InCatalog
    <3>5. /\ service' = [service EXCEPT ![s] = d]
          /\ edit' = [Missed(s, t, Editors \ {k}) EXCEPT ![k] = NoEdit]
      BY <1>3, <2>1, <3>2 DEF CreateServiceSave
    <3>6. Watches(edit[k])
      BY <3>1 DEF Watches
    <3>7. QED
      BY <3>3, <3>4, <3>5, <3>6
  <2>2. ASSUME UpdateServiceSave(k)
        PROVE  \E s \in Services, d \in ServiceDoc, a \in BOOLEAN :
          /\ service' = [service EXCEPT ![s] = d] /\ d.stored /\ d.name = t /\ d.raced = r
          /\ d.active => a
          /\ edit' = [(IF a THEN Missed(s, t, Editors \ {k}) ELSE edit) EXCEPT ![k] = NoEdit]
          /\ d.active => \A x \in Active \ {s} : x # edit[k].s
          /\ Watches(edit[k])
    <3>1. PICK s : s = edit[k].s
      OBVIOUS
    <3>2. edit[k].op = "rename" /\ t \in Titles /\ r \in BOOLEAN /\ s \in InCatalog /\ s \in Services
      BY <1>1, <1>3, <2>2, <3>1 DEF UpdateServiceSave, EditOK, Edit, InCatalog
    <3>3. service[s] \in ServiceDoc /\ service[s].stored /\ service \in [Services -> ServiceDoc]
      BY <1>1, <3>2 DEF CatTyped, InCatalog
    <3>4. PICK d : d = [service[s] EXCEPT !.name = t, !.raced = r]
      OBVIOUS
    <3>5. /\ d \in ServiceDoc /\ d.stored /\ d.name = t /\ d.raced = r
          /\ d.active = service[s].active
      BY <3>2, <3>3, <3>4 DEF ServiceDoc
    <3>6. service' = [service EXCEPT ![s] = d]
      <4>1. service' = [service EXCEPT ![s].name = t, ![s].raced = r]
        BY <1>3, <2>2, <3>1 DEF UpdateServiceSave
      <4>2. [service EXCEPT ![s].name = t, ![s].raced = r] = [service EXCEPT ![s] = d]
        BY <3>2, <3>3, <3>4
      <4>3. QED
        BY <4>1, <4>2
    <3>7. /\ edit' = [(IF service[s].active THEN Missed(s, t, Editors \ {k}) ELSE edit)
                         EXCEPT ![k] = NoEdit]
          /\ \A x \in Active \ {s} : x # edit[k].s
      BY <1>3, <2>2, <3>1 DEF UpdateServiceSave
    <3>8. Watches(edit[k]) /\ service[s].active \in BOOLEAN
      BY <3>2, <3>3 DEF Watches, ServiceDoc
    <3>9. QED
      BY <3>2, <3>5, <3>6, <3>7, <3>8
  <2>3. QED
    BY <2>1, <2>2
<1>5. PICK f : f = IF a THEN Missed(s, t, Editors \ {k}) ELSE edit
  OBVIOUS
<1>6. ASSUME NEW j \in Editors
      PROVE  /\ Marked(edit[j], f[j])
             /\ ~ Watches(edit[j]) => f[j] = edit[j]
             /\ a /\ Watches(f[j]) /\ j # k /\ edit[j].title = t /\ edit[j].s # s => f[j].raced
  <2>1. CASE a
    BY <1>1, <1>5, <2>1, MissedMarks
  <2>2. CASE ~ a
    BY <1>1, <1>5, <2>2, MarkCall
  <2>3. QED
    BY <2>1, <2>2
<1>7. edit' = [f EXCEPT ![k] = NoEdit] /\ DOMAIN f = Editors
  BY <1>1, <1>4, <1>5 DEF Missed
<1>8. edit'[k] = NoEdit /\ \A j \in Editors \ {k} : edit'[j] = f[j]
  BY <1>7
<1>9. EditsMove
  <2>1. edit' = [j \in Editors |-> edit'[j]]
    BY <1>7
  <2>2. QED
    BY <1>6, <1>8, <2>1 DEF EditsMove
<1>10. ListSame
  BY <1>2, <1>6, <1>8, NoEditType DEF ListSame, OnList, Marked, Watches
<1>11. TitleSet(s, d)
  <2>1. ASSUME NEW j \in Editors, Watches(edit'[j])
        PROVE  /\ Marked(edit[j], edit'[j])
               /\ d.active /\ edit[j].title = d.name /\ edit[j].s # s => edit'[j].raced
    BY <1>4, <1>6, <1>8, <2>1, NoEditType DEF Watches
  <2>2. ASSUME d.active, ~ d.raced, NEW x \in Active \ {s} PROVE service[x].name # d.name
    BY <1>3, <1>4, <2>2 DEF TitleInv, ChecksSee, Watches
  <2>3. QED
    BY <1>4, <2>1, <2>2 DEF TitleSet
<1>12. QED
  BY <1>9, <1>10, <1>11

\* A service is made active, or inactive.
LEMMA ActiveEffect ==
  ASSUME TitleInv, NEW s \in Services, NEW active \in BOOLEAN, SetServiceActive(s, active)
  PROVE  EditsMove /\ ListSame /\ \E d : TitleSet(s, d)
<1>1. edit \in [Editors -> Edit] /\ CatTyped /\ service[s] \in ServiceDoc
      /\ service \in [Services -> ServiceDoc] /\ service[s].stored
  BY DEF TitleInv, CatTyped, SetServiceActive, InCatalog
<1>2. PICK d : d = [service[s] EXCEPT !.active = active, !.revived = active]
  OBVIOUS
<1>3. /\ d \in ServiceDoc /\ d.stored /\ d.name = service[s].name
      /\ d.active = active /\ d.revived = active
  BY <1>1, <1>2 DEF ServiceDoc
<1>4. service' = [service EXCEPT ![s] = d]
  BY <1>1, <1>2 DEF SetServiceActive
<1>5. ASSUME NEW j \in Editors
      PROVE  /\ Marked(edit[j], edit'[j])
             /\ ~ Watches(edit[j]) => edit'[j] = edit[j]
             /\ active /\ Watches(edit'[j]) /\ edit[j].title = d.name /\ edit[j].s # s
                  => edit'[j].raced
  <2>1. CASE active
    BY <1>1, <1>3, <2>1, MissedMarks DEF SetServiceActive
  <2>2. CASE ~ active
    BY <1>1, <2>2, MarkCall DEF SetServiceActive
  <2>3. QED
    BY <2>1, <2>2
<1>6. EditsMove
  <2>1. edit' = [j \in Editors |-> edit'[j]]
    BY <1>1 DEF SetServiceActive, Missed
  <2>2. QED
    BY <1>5, <2>1 DEF EditsMove
<1>7. ListSame
  BY <1>5 DEF ListSame, OnList, Marked, Watches, SetServiceActive
<1>8. TitleSet(s, d)
  BY <1>3, <1>4, <1>5 DEF TitleSet
<1>9. QED
  BY <1>6, <1>7, <1>8

-----------------------------------------------------------------------------
(* Lists of barbers *)

\* One call loads a barber.
ListNew(k) ==
  /\ UNCHANGED <<list, version, mixed>>
  /\ \A j \in Editors \ {k} : edit'[j] = edit[j]
  /\ edit'[k].op = "push" => ~ Listed(list[edit'[k].p], edit'[k].s)
  /\ edit'[k].op \in {"price", "splice"} =>
       edit'[k].list = list[edit'[k].p] /\ edit'[k].version = version[edit'[k].p]

\* The list of barber p becomes l, at version v.
ListSet(p, l, v) ==
  /\ p \in Profiles /\ l \in Seq(Entry) /\ v \in 0 .. MaxVersion /\ version[p] <= v
  /\ list' = [list EXCEPT ![p] = l] /\ version' = [version EXCEPT ![p] = v]
  /\ mixed' \in {mixed, mixed \cup {p}}
  /\ p \notin mixed' => Fine(l)
  /\ \A k \in Editors : OnList(edit'[k]) =>
       /\ Marked(edit[k], edit'[k])
       /\ p \notin mixed' /\ edit[k].p = p =>
            /\ Holds(k) /\ v = version[p] => edit'[k].replaced \/ Alike(l, list[p])
            /\ edit[k].op = "push" /\ ~ edit'[k].raced => ~ Listed(l, edit[k].s)

\* Lists with the same services.
LEMMA AlikeLists ==
  ASSUME NEW l \in Seq(Entry), NEW m \in Seq(Entry)
  PROVE  /\ Alike(l, l)
         /\ Alike(l, m) => Alike(m, l)
         /\ Alike(l, m) => \A t : Listed(l, t) => Listed(m, t)
         /\ \A n : Alike(l, m) /\ Alike(m, n) => Alike(l, n)
<1>1. Len(l) \in Nat /\ DOMAIN l = 1 .. Len(l) /\ Len(m) \in Nat /\ DOMAIN m = 1 .. Len(m)
  BY LenProperties
<1>2. Alike(l, l) /\ (Alike(l, m) => Alike(m, l))
  BY DEF Alike
<1>3. ASSUME Alike(l, m), NEW t, Listed(l, t) PROVE Listed(m, t)
  BY <1>1, <1>3 DEF Alike, Listed
<1>4. \A n : Alike(l, m) /\ Alike(m, n) => Alike(l, n)
  BY DEF Alike
<1>5. QED
  BY <1>2, <1>3, <1>4

\* Lists and copies agree while nothing happens to them.
LEMMA ListSameStep ==
  ASSUME ListInv, ListSame
  PROVE  ListsAreFine' /\ CopiesAreFine' /\ CopiesAgree' /\ AdditionsAreNew'
<1>1. list' = list /\ version' = version /\ mixed' = mixed
  BY DEF ListSame
<1>2. \A k \in Editors : OnList(edit'[k]) => edit'[k] = edit[k]
  BY DEF ListSame
<1>3. ListsAreFine'
  BY <1>1 DEF ListInv, ListsAreFine
<1>4. CopiesAreFine'
  BY <1>1, <1>2 DEF ListInv, CopiesAreFine, Holds, OnList
<1>5. CopiesAgree'
  BY <1>1, <1>2 DEF ListInv, CopiesAgree, Holds, OnList, Loaded
<1>6. AdditionsAreNew'
  BY <1>1, <1>2 DEF ListInv, AdditionsAreNew, OnList
<1>7. QED
  BY <1>3, <1>4, <1>5, <1>6

\* A copy is as good as its list.
LEMMA ListNewStep ==
  ASSUME ListInv, NEW k \in Editors, ListNew(k), EditOK(edit'[k], InCatalog')
  PROVE  ListsAreFine' /\ CopiesAreFine' /\ CopiesAgree' /\ AdditionsAreNew'
<1>1. list' = list /\ version' = version /\ mixed' = mixed
  BY DEF ListNew
<1>2. \A j \in Editors \ {k} : edit'[j] = edit[j]
  BY DEF ListNew
<1>3. /\ list \in [Profiles -> Seq(Entry)] /\ version \in [Profiles -> 0 .. MaxVersion]
      /\ OnList(edit'[k]) => edit'[k].p \in Profiles
  BY DEF ListInv, CatTyped, EditOK, OnList
<1>4. ListsAreFine'
  BY <1>1 DEF ListInv, ListsAreFine
<1>5. CopiesAreFine'
  <2>1. SUFFICES ASSUME NEW j \in Editors, Holds(j)', edit'[j].p \notin mixed
                 PROVE  Fine(edit'[j].list)
    BY <1>1 DEF CopiesAreFine
  <2>2. CASE j = k
    <3>1. edit'[k].list = list[edit'[k].p] /\ edit'[k].p \in Profiles
      BY <1>3, <2>1, <2>2 DEF ListNew, Holds, OnList
    <3>2. QED
      BY <2>1, <2>2, <3>1 DEF ListInv, ListsAreFine
  <2>3. CASE j # k
    BY <1>2, <2>1, <2>3 DEF ListInv, CopiesAreFine, Holds
  <2>4. QED
    BY <2>2, <2>3
<1>6. CopiesAgree'
  <2>1. SUFFICES ASSUME NEW j \in Editors, Holds(j)'
                 PROVE  /\ edit'[j].version <= version[edit'[j].p]
                        /\ version[edit'[j].p] = edit'[j].version /\ ~ edit'[j].replaced
                             /\ edit'[j].p \notin mixed
                           => Alike(list[edit'[j].p], edit'[j].list)
    BY <1>1 DEF CopiesAgree, Loaded
  <2>2. CASE j = k
    <3>1. /\ edit'[k].p \in Profiles /\ edit'[k].list = list[edit'[k].p]
          /\ edit'[k].version = version[edit'[k].p]
      BY <1>3, <2>1, <2>2 DEF ListNew, Holds, OnList
    <3>2. list[edit'[k].p] \in Seq(Entry) /\ version[edit'[k].p] \in Nat
      BY <1>3, <3>1
    <3>3. Alike(list[edit'[k].p], list[edit'[k].p])
      BY <3>2, AlikeLists
    <3>4. QED
      BY <2>2, <3>1, <3>2, <3>3
  <2>3. CASE j # k
    BY <1>2, <2>1, <2>3 DEF ListInv, CopiesAgree, Holds, Loaded
  <2>4. QED
    BY <2>2, <2>3
<1>7. AdditionsAreNew'
  <2>1. SUFFICES ASSUME NEW j \in Editors, edit'[j].op = "push", ~ edit'[j].raced,
                        edit'[j].p \notin mixed
                 PROVE  ~ Listed(list[edit'[j].p], edit'[j].s)
    BY <1>1 DEF AdditionsAreNew
  <2>2. CASE j = k
    BY <2>1, <2>2 DEF ListNew
  <2>3. CASE j # k
    BY <1>2, <2>1, <2>3 DEF ListInv, AdditionsAreNew
  <2>4. QED
    BY <2>2, <2>3
<1>8. QED
  BY <1>4, <1>5, <1>6, <1>7

\* A list that is saved is in order, and calls that hold another know it.
LEMMA ListSetStep ==
  ASSUME ListInv, NEW p, NEW l, NEW v, ListSet(p, l, v)
  PROVE  /\ list' \in [Profiles -> Seq(Entry)] /\ version' \in [Profiles -> 0 .. MaxVersion]
         /\ mixed' \subseteq Profiles
         /\ ListsAreFine' /\ CopiesAreFine' /\ CopiesAgree' /\ AdditionsAreNew'
<1>1. /\ list \in [Profiles -> Seq(Entry)] /\ version \in [Profiles -> 0 .. MaxVersion]
      /\ mixed \subseteq Profiles /\ edit \in [Editors -> Edit]
      /\ \A k \in Editors : EditOK(edit[k], InCatalog)
  BY DEF ListInv, CatTyped
<1>2. /\ p \in Profiles /\ l \in Seq(Entry) /\ v \in 0 .. MaxVersion /\ version[p] <= v
      /\ list' = [list EXCEPT ![p] = l] /\ version' = [version EXCEPT ![p] = v]
      /\ mixed' \in {mixed, mixed \cup {p}} /\ (p \notin mixed' => Fine(l))
  BY DEF ListSet
<1>3. /\ list' \in [Profiles -> Seq(Entry)] /\ version' \in [Profiles -> 0 .. MaxVersion]
      /\ mixed' \subseteq Profiles /\ mixed \subseteq mixed'
      /\ list'[p] = l /\ version'[p] = v
      /\ \A q \in Profiles \ {p} : list'[q] = list[q] /\ version'[q] = version[q]
      /\ \A q \in Profiles \ {p} : q \notin mixed' => q \notin mixed
  BY <1>1, <1>2
<1>4. ASSUME NEW k \in Editors, OnList(edit'[k])
      PROVE  /\ edit'[k].op = edit[k].op /\ edit'[k].s = edit[k].s /\ edit'[k].p = edit[k].p
             /\ edit'[k].list = edit[k].list /\ edit'[k].version = edit[k].version
             /\ edit[k].raced => edit'[k].raced
             /\ edit[k].replaced => edit'[k].replaced
             /\ edit[k].p \in Profiles /\ edit[k].version \in Nat /\ edit[k].list \in Seq(Entry)
             /\ edit[k].p \notin mixed' => edit[k].p \notin mixed
             /\ edit[k].replaced \in BOOLEAN
  <2>1. Marked(edit[k], edit'[k])
    BY <1>4 DEF ListSet
  <2>2. edit[k] \in Edit /\ EditOK(edit[k], InCatalog) /\ edit'[k].op = edit[k].op
    BY <1>1, <2>1 DEF Marked
  <2>3. edit[k].p \in Profiles /\ edit[k].version \in Nat /\ edit[k].list \in Seq(Entry)
        /\ edit[k].replaced \in BOOLEAN
    BY <1>4, <2>2 DEF EditOK, OnList, Edit
  <2>4. QED
    BY <1>3, <2>1, <2>3 DEF Marked
<1>5. ListsAreFine'
  <2>1. SUFFICES ASSUME NEW q \in Profiles, q \notin mixed' PROVE Fine(list'[q])
    BY DEF ListsAreFine
  <2>2. CASE q = p
    BY <1>2, <1>3, <2>1, <2>2
  <2>3. CASE q # p
    BY <1>3, <2>1, <2>3 DEF ListInv, ListsAreFine
  <2>4. QED
    BY <2>2, <2>3
<1>6. CopiesAreFine'
  <2>1. SUFFICES ASSUME NEW k \in Editors, Holds(k)', edit'[k].p \notin mixed'
                 PROVE  Fine(edit'[k].list)
    BY DEF CopiesAreFine
  <2>2. OnList(edit'[k]) /\ edit'[k].op \in {"price", "splice"}
    BY <2>1 DEF Holds, OnList
  <2>3. Holds(k) /\ edit[k].p \notin mixed /\ edit'[k].list = edit[k].list
    BY <1>4, <2>1, <2>2 DEF Holds
  <2>4. QED
    BY <2>3 DEF ListInv, CopiesAreFine
<1>7. CopiesAgree'
  <2>1. SUFFICES ASSUME NEW k \in Editors, Holds(k)'
                 PROVE  /\ edit'[k].version <= version'[edit'[k].p]
                        /\ version'[edit'[k].p] = edit'[k].version /\ ~ edit'[k].replaced
                             /\ edit'[k].p \notin mixed'
                           => Alike(list'[edit'[k].p], edit'[k].list)
    BY DEF CopiesAgree, Loaded
  <2>2. OnList(edit'[k]) /\ edit'[k].op \in {"price", "splice"}
    BY <2>1 DEF Holds, OnList
  <2>3. PICK q, x, m : q = edit[k].p /\ x = edit[k].version /\ m = edit[k].list
    OBVIOUS
  <2>4. /\ Holds(k) /\ edit'[k].p = q /\ edit'[k].version = x /\ edit'[k].list = m
        /\ q \in Profiles /\ x \in Nat /\ m \in Seq(Entry)
        /\ (q \notin mixed' => q \notin mixed)
        /\ (~ edit'[k].replaced => ~ edit[k].replaced)
    BY <1>4, <2>2, <2>3 DEF Holds
  <2>5. /\ x <= version[q]
        /\ version[q] = x /\ ~ edit[k].replaced /\ q \notin mixed => Alike(list[q], m)
    BY <2>3, <2>4 DEF ListInv, CopiesAgree, Loaded
  <2>6. CASE q # p
    BY <1>3, <2>4, <2>5, <2>6
  <2>7. CASE q = p
    <3>1. version[p] \in Nat /\ v \in Nat /\ version[p] <= v
      BY <1>1, <1>2
    <3>2. x <= v
      BY <2>4, <2>5, <2>7, <3>1
    <3>3. ASSUME v = x, ~ edit'[k].replaced, p \notin mixed' PROVE Alike(l, m)
      <4>1. v = version[p]
        BY <2>4, <2>5, <2>7, <3>1, <3>3
      <4>2. Alike(l, list[p])
        BY <2>2, <2>3, <2>4, <2>7, <3>3, <4>1 DEF ListSet
      <4>3. Alike(list[p], m)
        BY <2>4, <2>5, <2>7, <3>3, <4>1
      <4>4. l \in Seq(Entry) /\ list[p] \in Seq(Entry)
        BY <1>1, <1>2
      <4>5. QED
        BY <4>2, <4>3, <4>4, AlikeLists
    <3>4. QED
      BY <1>3, <2>4, <2>7, <3>2, <3>3
  <2>8. QED
    BY <2>6, <2>7
<1>8. AdditionsAreNew'
  <2>1. SUFFICES ASSUME NEW k \in Editors, edit'[k].op = "push", ~ edit'[k].raced,
                        edit'[k].p \notin mixed'
                 PROVE  ~ Listed(list'[edit'[k].p], edit'[k].s)
    BY DEF AdditionsAreNew
  <2>2. OnList(edit'[k])
    BY <2>1 DEF OnList
  <2>3. /\ edit[k].op = "push" /\ ~ edit[k].raced /\ edit[k].p \in Profiles
        /\ edit[k].p \notin mixed /\ edit'[k].p = edit[k].p /\ edit'[k].s = edit[k].s
    BY <1>4, <2>1, <2>2
  <2>4. CASE edit[k].p # p
    BY <1>3, <2>3, <2>4 DEF ListInv, AdditionsAreNew
  <2>5. CASE edit[k].p = p
    BY <1>3, <2>1, <2>2, <2>3, <2>5 DEF ListSet
  <2>6. QED
    BY <2>4, <2>5
<1>9. QED
  BY <1>3, <1>5, <1>6, <1>7, <1>8

\* A call that holds a copy knows the place of its service in it.
LEMMA CopyHasService ==
  ASSUME ListInv, NEW k \in Editors, Holds(k)
  PROVE  /\ edit[k].p \in Profiles /\ edit[k].s \in Services /\ edit[k].list \in Seq(Entry)
         /\ IndexOf(edit[k].list, edit[k].s) \in DOMAIN edit[k].list
         /\ edit[k].list[IndexOf(edit[k].list, edit[k].s)].serviceId = edit[k].s
         /\ edit[k].replaced \in BOOLEAN /\ edit[k].raced \in BOOLEAN
<1>1. edit[k] \in Edit /\ EditOK(edit[k], InCatalog)
  BY DEF ListInv, CatTyped
<1>2. /\ edit[k].p \in Profiles /\ edit[k].s \in Services /\ edit[k].list \in Seq(Entry)
      /\ Listed(edit[k].list, edit[k].s)
      /\ edit[k].replaced \in BOOLEAN /\ edit[k].raced \in BOOLEAN
  BY <1>1 DEF EditOK, Holds, Edit
<1>3. QED
  BY <1>2, FirstIndex

\* The steps of one call on a list leave the calls that look at titles alone.
LEMMA ListLoadEffect ==
  ASSUME CatTyped, NEW k \in Editors, NEW p \in Profiles, NEW s \in Services,
         AddLoad(k, p, s) \/ \E op \in {"price", "splice"} : ListLoad(k, p, s, op)
  PROVE  EditsMove /\ ListNew(k) /\ TitleSame /\ UNCHANGED InCatalog
<1>1. /\ service' = service /\ UNCHANGED <<list, version, mixed>> /\ UNCHANGED InCatalog
      /\ list[p] \in Seq(Entry) /\ version[p] \in 0 .. MaxVersion
  BY DEF AddLoad, ListLoad, InCatalog, CatTyped
<1>2. PICK new \in Edit : /\ Open(k, new) /\ OnList(new) /\ new.p = p /\ new.s = s
                          /\ new.op = "push" => ~ Listed(list[p], s)
                          /\ new.op \in {"price", "splice"} =>
                               new.list = list[p] /\ new.version = version[p] /\ Listed(list[p], s)
  <2>1. CASE AddLoad(k, p, s)
    <3>1. PICK new : new = [NoEdit EXCEPT !.op = "push", !.p = p, !.s = s]
      OBVIOUS
    <3>2. new \in Edit /\ new.op = "push" /\ new.p = p /\ new.s = s
      BY <3>1, NoEditType DEF Edit, EditOps
    <3>3. Open(k, new) /\ ~ Listed(list[p], s)
      BY <2>1, <3>1 DEF AddLoad
    <3>4. OnList(new)
      BY <3>2 DEF OnList
    <3>5. QED
      BY <3>2, <3>3, <3>4
  <2>2. ASSUME NEW op \in {"price", "splice"}, ListLoad(k, p, s, op)
        PROVE  \E new \in Edit :
                 /\ Open(k, new) /\ OnList(new) /\ new.p = p /\ new.s = s
                 /\ new.op = "push" => ~ Listed(list[p], s)
                 /\ new.op \in {"price", "splice"} =>
                      new.list = list[p] /\ new.version = version[p] /\ Listed(list[p], s)
    <3>1. PICK new : new = [NoEdit EXCEPT !.op = op, !.p = p, !.s = s,
                                          !.list = list[p], !.version = version[p]]
      OBVIOUS
    <3>2. /\ new \in Edit /\ new.op = op /\ new.p = p /\ new.s = s
          /\ new.list = list[p] /\ new.version = version[p]
      BY <1>1, <3>1, NoEditType DEF Edit, EditOps
    <3>3. Open(k, new) /\ Listed(list[p], s)
      BY <2>2, <3>1 DEF ListLoad
    <3>4. OnList(new) /\ new.op # "push"
      BY <3>2 DEF OnList
    <3>5. QED
      BY <3>2, <3>3, <3>4
  <2>3. QED
    BY <2>1, <2>2
<1>3. EditOK(new, InCatalog')
  BY <1>2 DEF EditOK, OnList
<1>4. /\ EditsMove /\ edit'[k] = new
      /\ \A j \in Editors \ {k} : edit'[j] = edit[j]
  BY <1>2, <1>3, OpenMoves
<1>5. ListNew(k)
  BY <1>1, <1>2, <1>4 DEF ListNew
<1>6. TitleSame
  BY <1>1, <1>2, <1>4 DEF TitleSame, Watches, OnList
<1>7. QED
  BY <1>1, <1>4, <1>5, <1>6

\* A push marks the calls that add the same service, and leaves the others alone.
LEMMA PassedMarks ==
  ASSUME CatTyped, NEW k \in Editors, NEW p, NEW s, edit' = Passed(k, p, s)
  PROVE  /\ EditsMove
         /\ edit'[k] = NoEdit
         /\ \A j \in Editors \ {k} :
              /\ Marked(edit[j], edit'[j])
              /\ edit[j].op # "push" => edit'[j] = edit[j]
              /\ edit[j].op = "push" /\ edit[j].p = p /\ edit[j].s = s => edit'[j].raced
<1>1. edit' = [j \in Editors |-> edit'[j]] /\ edit'[k] = NoEdit
  BY DEF Passed
<1>2. ASSUME NEW j \in Editors \ {k}
      PROVE  /\ Marked(edit[j], edit'[j])
             /\ edit[j].op # "push" => edit'[j] = edit[j]
             /\ edit[j].op = "push" /\ edit[j].p = p /\ edit[j].s = s => edit'[j].raced
  <2>1. PICK e \in Edit : e = edit[j]
    BY DEF CatTyped
  <2>2. edit'[j] = IF e.op = "push" /\ e.p = p /\ e.s = s
                   THEN [e EXCEPT !.raced = TRUE] ELSE e
    BY <2>1 DEF Passed
  <2>3. /\ Marked(e, e)
        /\ Marked(e, [e EXCEPT !.raced = TRUE]) /\ [e EXCEPT !.raced = TRUE].raced
    BY MarkCall
  <2>4. QED
    BY <2>1, <2>2, <2>3
<1>3. QED
  BY <1>1, <1>2 DEF EditsMove

\* addServiceToBarber saves.
LEMMA AddEffect ==
  ASSUME ListInv, NEW k \in Editors, AddSave(k)
  PROVE  /\ EditsMove /\ TitleSame /\ UNCHANGED InCatalog
         /\ \E p, l, v : ListSet(p, l, v)
<1>1. PICK p, s, r : p = edit[k].p /\ s = edit[k].s /\ r = edit[k].raced
  OBVIOUS
<1>2. CatTyped /\ edit[k] \in Edit /\ EditOK(edit[k], InCatalog) /\ edit[k].op = "push"
  BY DEF ListInv, CatTyped, AddSave
<1>3. p \in Profiles /\ s \in Services /\ r \in BOOLEAN
  BY <1>1, <1>2 DEF EditOK, Edit
<1>4. /\ list[p] \in Seq(Entry) /\ version[p] \in 0 .. MaxVersion /\ MaxVersion \in Nat
      /\ list \in [Profiles -> Seq(Entry)] /\ version \in [Profiles -> 0 .. MaxVersion]
  BY <1>2, <1>3, CatalogConstants DEF CatTyped
<1>5. PICK l : l = Append(list[p], [Priced(s) EXCEPT !.raced = r])
  OBVIOUS
<1>6. PICK v : v = version[p] + 1
  OBVIOUS
<1>7. /\ list' = [list EXCEPT ![p] = l] /\ version' = [version EXCEPT ![p] = v]
      /\ version[p] < MaxVersion /\ mixed' = mixed /\ service' = service
      /\ edit' = Passed(k, p, s)
  BY <1>1, <1>4, <1>5, <1>6 DEF AddSave
<1>8. /\ l \in Seq(Entry)
      /\ \A t : Listed(l, t) => Listed(list[p], t) \/ t = s
      /\ Fine(list[p]) /\ (r \/ ~ Listed(list[p], s)) => Fine(l)
  BY <1>3, <1>4, <1>5, AppendFine
<1>9. p \notin mixed => Fine(list[p]) /\ (r \/ ~ Listed(list[p], s))
  BY <1>1, <1>2, <1>3 DEF ListInv, ListsAreFine, AdditionsAreNew
<1>10. v \in 0 .. MaxVersion /\ version[p] < v
  BY <1>4, <1>6, <1>7
<1>11. /\ EditsMove /\ edit'[k] = NoEdit
       /\ \A j \in Editors \ {k} :
            /\ Marked(edit[j], edit'[j])
            /\ edit[j].op # "push" => edit'[j] = edit[j]
            /\ edit[j].op = "push" /\ edit[j].p = p /\ edit[j].s = s => edit'[j].raced
  BY <1>2, <1>7, PassedMarks
<1>12. ASSUME NEW j \in Editors, OnList(edit'[j]), p \notin mixed', edit[j].p = p,
              edit[j].op = "push", ~ edit'[j].raced
       PROVE  ~ Listed(l, edit[j].s)
  <2>1. j # k
    BY <1>11, <1>12, NoEditType DEF OnList
  <2>2. edit[j].s # s /\ ~ edit[j].raced
    BY <1>11, <1>12, <2>1 DEF Marked
  <2>3. ~ Listed(list[p], edit[j].s)
    BY <1>7, <1>12, <2>2 DEF ListInv, AdditionsAreNew
  <2>4. QED
    BY <1>8, <2>2, <2>3
<1>13. \A j \in Editors : OnList(edit'[j]) => Marked(edit[j], edit'[j])
  BY <1>11, NoEditType DEF OnList
<1>14. ListSet(p, l, v)
  <2>1. ~ (v = version[p]) /\ version[p] <= v
    BY <1>4, <1>10
  <2>2. p \notin mixed' => Fine(l)
    BY <1>7, <1>8, <1>9
  <2>3. QED
    BY <1>3, <1>7, <1>8, <1>10, <1>12, <1>13, <2>1, <2>2 DEF ListSet
<1>15. TitleSame
  BY <1>7, <1>11, NoEditType DEF TitleSame, Watches, Marked
<1>16. UNCHANGED InCatalog
  BY <1>7 DEF InCatalog
<1>17. QED
  BY <1>11, <1>14, <1>15, <1>16

\* A call ends and leaves everything else.
LEMMA GivenUp ==
  ASSUME CatTyped, NEW k \in Editors, Close(k), UNCHANGED service
  PROVE  /\ EditsMove /\ TitleSame /\ UNCHANGED InCatalog
         /\ UNCHANGED <<list, version, mixed>> => ListSame
         /\ \A j \in Editors : OnList(edit'[j]) => edit'[j] = edit[j] /\ Marked(edit[j], edit'[j])
<1>1. /\ EditsMove /\ edit'[k] = NoEdit
      /\ \A j \in Editors \ {k} : edit'[j] = edit[j]
  BY CloseMoves
<1>2. \A j \in Editors : OnList(edit'[j]) \/ Watches(edit'[j]) => edit'[j] = edit[j] /\ edit[j] \in Edit
  BY <1>1, NoEditType DEF OnList, Watches, CatTyped
<1>3. \A j \in Editors : OnList(edit'[j]) => Marked(edit[j], edit'[j])
  BY <1>2, MarkCall
<1>4. TitleSame /\ UNCHANGED InCatalog
  BY <1>2 DEF TitleSame, InCatalog
<1>5. UNCHANGED <<list, version, mixed>> => ListSame
  BY <1>2 DEF ListSame
<1>6. QED
  BY <1>1, <1>2, <1>3, <1>4, <1>5

\* A copy that is saved has the services of the document, and is in order.
LEMMA SavedCopy ==
  ASSUME ListInv, NEW k \in Editors, Holds(k), Loaded(k),
         NEW p, p = edit[k].p, p \notin mixed, ~ edit[k].replaced
  PROVE  /\ Alike(list[p], edit[k].list) /\ Fine(edit[k].list) /\ Fine(list[p])
         /\ DOMAIN list[p] = DOMAIN edit[k].list
<1>1. Alike(list[p], edit[k].list) /\ Fine(edit[k].list)
  BY DEF ListInv, CopiesAgree, CopiesAreFine
<1>2. p \in Profiles /\ edit[k].list \in Seq(Entry)
  BY CopyHasService
<1>3. list[p] \in Seq(Entry) /\ Fine(list[p])
  BY <1>2 DEF ListInv, ListsAreFine, CatTyped
<1>4. QED
  BY <1>1, <1>2, <1>3, LenProperties DEF Alike

\* updateBarberService saves the price, or throws.
LEMMA PriceEffect ==
  ASSUME ListInv, NEW k \in Editors, PriceSave(k)
  PROVE  /\ EditsMove /\ TitleSame /\ UNCHANGED InCatalog
         /\ ListSame \/ \E p, l, v : ListSet(p, l, v)
<1>1. PICK p, s, i, r : /\ p = edit[k].p /\ s = edit[k].s /\ r = edit[k].replaced
                        /\ i = IndexOf(edit[k].list, edit[k].s)
  OBVIOUS
<1>2. CatTyped /\ Holds(k) /\ Close(k) /\ service' = service /\ version' = version
  BY DEF ListInv, PriceSave, Holds
<1>3. /\ p \in Profiles /\ s \in Services /\ edit[k].list \in Seq(Entry)
      /\ i \in DOMAIN edit[k].list /\ edit[k].list[i].serviceId = s /\ r \in BOOLEAN
  BY <1>1, <1>2, CopyHasService
<1>4. /\ list[p] \in Seq(Entry) /\ version[p] \in 0 .. MaxVersion /\ MaxVersion \in Nat
      /\ list \in [Profiles -> Seq(Entry)] /\ version \in [Profiles -> 0 .. MaxVersion]
  BY <1>2, <1>3, CatalogConstants DEF CatTyped
<1>5. /\ EditsMove /\ TitleSame /\ UNCHANGED InCatalog
      /\ UNCHANGED <<list, version, mixed>> => ListSame
      /\ \A j \in Editors : OnList(edit'[j]) => edit'[j] = edit[j] /\ Marked(edit[j], edit'[j])
  BY <1>2, GivenUp
<1>6. CASE ~ Loaded(k)
  BY <1>2, <1>5, <1>6 DEF PriceSave
<1>7. CASE Loaded(k)
  <2>1. PICK l : l = SetPrice(list[p], i, s)
    OBVIOUS
  <2>2. list' = [list EXCEPT ![p] = l] /\ mixed' = IF r THEN mixed \cup {p} ELSE mixed
    BY <1>1, <1>4, <1>7, <2>1 DEF PriceSave
  <2>3. i \in Nat \ {0}
    BY <1>3, LenProperties
  <2>4. /\ l \in Seq(Entry)
        /\ i \in DOMAIN list[p] => Alike(l, list[p])
        /\ i \in DOMAIN list[p] /\ list[p][i].serviceId = s /\ Fine(list[p]) => Fine(l)
    BY <1>3, <1>4, <2>1, <2>3, SetPriceFine
  <2>5. ASSUME p \notin mixed' PROVE Fine(l) /\ Alike(l, list[p])
    <3>1. p \notin mixed /\ ~ r
      BY <2>2, <2>5
    <3>2. /\ Alike(list[p], edit[k].list) /\ Fine(list[p])
          /\ DOMAIN list[p] = DOMAIN edit[k].list
      BY <1>1, <1>2, <1>7, <3>1, SavedCopy
    <3>3. i \in DOMAIN list[p] /\ list[p][i].serviceId = s
      BY <1>3, <1>4, <3>2, LenProperties DEF Alike
    <3>4. QED
      BY <2>4, <3>2, <3>3
  <2>6. ASSUME NEW j \in Editors, OnList(edit'[j]), p \notin mixed', edit[j].p = p,
               edit[j].op = "push", ~ edit'[j].raced
        PROVE  ~ Listed(l, edit[j].s)
    <3>1. ~ edit[j].raced /\ p \notin mixed
      BY <1>5, <2>2, <2>6
    <3>2. ~ Listed(list[p], edit[j].s)
      BY <2>6, <3>1 DEF ListInv, AdditionsAreNew
    <3>3. QED
      BY <1>4, <2>4, <2>5, <2>6, <3>2, AlikeLists
  <2>7. version' = [version EXCEPT ![p] = version[p]] /\ version[p] <= version[p]
    BY <1>2, <1>4
  <2>8. mixed' \in {mixed, mixed \cup {p}}
    BY <2>2
  <2>9. ListSet(p, l, version[p])
    BY <1>3, <1>4, <1>5, <2>2, <2>4, <2>5, <2>6, <2>7, <2>8 DEF ListSet
  <2>10. QED
    BY <1>5, <2>9
<1>8. QED
  BY <1>6, <1>7

\* removeServiceFromBarber saves the list it loaded without the element, or throws.
LEMMA RemoveEffect ==
  ASSUME ListInv, NEW k \in Editors, RemoveSave(k)
  PROVE  /\ EditsMove /\ TitleSame /\ UNCHANGED InCatalog
         /\ ListSame \/ \E p, l, v : ListSet(p, l, v)
<1>1. PICK p, s, i, r, m : /\ p = edit[k].p /\ s = edit[k].s /\ r = edit[k].replaced
                           /\ m = edit[k].list /\ i = IndexOf(edit[k].list, edit[k].s)
  OBVIOUS
<1>2. CatTyped /\ Holds(k) /\ Close(k) /\ service' = service /\ version[p] < MaxVersion
  BY <1>1 DEF ListInv, RemoveSave, Holds
<1>3. p \in Profiles /\ s \in Services /\ m \in Seq(Entry) /\ i \in DOMAIN m /\ r \in BOOLEAN
  BY <1>1, <1>2, CopyHasService
<1>4. /\ list[p] \in Seq(Entry) /\ version[p] \in 0 .. MaxVersion /\ MaxVersion \in Nat
      /\ list \in [Profiles -> Seq(Entry)] /\ version \in [Profiles -> 0 .. MaxVersion]
  BY <1>2, <1>3, CatalogConstants DEF CatTyped
<1>5. /\ EditsMove /\ TitleSame /\ UNCHANGED InCatalog
      /\ UNCHANGED <<list, version, mixed>> => ListSame
      /\ \A j \in Editors : OnList(edit'[j]) => edit'[j] = edit[j] /\ Marked(edit[j], edit'[j])
  BY <1>2, GivenUp
<1>6. CASE ~ Loaded(k)
  BY <1>5, <1>6 DEF RemoveSave
<1>7. CASE Loaded(k)
  <2>1. PICK l : l = RemoveAt(m, i)
    OBVIOUS
  <2>2. PICK v : v = version[p] + 1
    OBVIOUS
  <2>3. /\ list' = [list EXCEPT ![p] = l] /\ version' = [version EXCEPT ![p] = v]
        /\ mixed' = IF r THEN mixed \cup {p} ELSE mixed
    BY <1>1, <1>4, <1>7, <2>1, <2>2 DEF RemoveSave
  <2>4. l \in Seq(Entry) /\ (\A t : Listed(l, t) => Listed(m, t)) /\ (Fine(m) => Fine(l))
    BY <1>3, <2>1, RemoveFine
  <2>5. ASSUME p \notin mixed' PROVE Fine(l) /\ Alike(list[p], m)
    <3>1. p \notin mixed /\ ~ r
      BY <2>3, <2>5
    <3>2. Alike(list[p], m) /\ Fine(m)
      BY <1>1, <1>2, <1>7, <3>1, SavedCopy
    <3>3. QED
      BY <2>4, <3>2
  <2>6. ASSUME NEW j \in Editors, OnList(edit'[j]), p \notin mixed', edit[j].p = p,
               edit[j].op = "push", ~ edit'[j].raced
        PROVE  ~ Listed(l, edit[j].s)
    <3>1. ~ edit[j].raced /\ p \notin mixed
      BY <1>5, <2>3, <2>6
    <3>2. ~ Listed(list[p], edit[j].s)
      BY <2>6, <3>1 DEF ListInv, AdditionsAreNew
    <3>3. Alike(m, list[p])
      BY <1>3, <1>4, <2>5, <2>6, AlikeLists
    <3>4. QED
      BY <1>3, <1>4, <2>4, <3>2, <3>3, AlikeLists
  <2>7. v \in 0 .. MaxVersion /\ version[p] <= v /\ v # version[p]
    BY <1>2, <1>4, <2>2
  <2>8. mixed' \in {mixed, mixed \cup {p}}
    BY <2>3
  <2>9. ListSet(p, l, v)
    BY <1>3, <1>5, <2>3, <2>4, <2>5, <2>6, <2>7, <2>8 DEF ListSet
  <2>10. QED
    BY <1>5, <2>9
<1>8. QED
  BY <1>6, <1>7

\* updateBarber replaces the list.
LEMMA ReplaceEffect ==
  ASSUME ListInv, NEW p \in Profiles, NEW body \in Bodies, UpdateBarberServices(p, body)
  PROVE  /\ EditsMove /\ TitleSame /\ UNCHANGED InCatalog
         /\ \E q, l, v : ListSet(q, l, v)
<1>1. /\ list \in [Profiles -> Seq(Entry)] /\ version \in [Profiles -> 0 .. MaxVersion]
      /\ version[p] \in 0 .. MaxVersion /\ MaxVersion \in Nat /\ edit \in [Editors -> Edit]
  BY CatalogConstants DEF ListInv, CatTyped
<1>2. /\ list' = [list EXCEPT ![p] = body] /\ UNCHANGED <<service, version, mixed>>
      /\ edit' = [k \in Editors |-> edit'[k]]
  BY DEF UpdateBarberServices
<1>3. body \in Seq(Entry) /\ Fine(body)
  BY BodyFine
<1>4. ASSUME NEW k \in Editors
      PROVE  /\ Marked(edit[k], edit'[k])
             /\ ~ OnList(edit[k]) => edit'[k] = edit[k]
             /\ Holds(k) /\ edit[k].p = p => edit'[k].replaced
             /\ edit[k].op = "push" /\ edit[k].p = p /\ ~ edit'[k].raced => ~ Listed(body, edit[k].s)
  <2>1. PICK e \in Edit : e = edit[k]
    BY <1>1
  <2>2. PICK b \in BOOLEAN : b <=> e.op = "push" /\ Listed(body, e.s)
    OBVIOUS
  <2>3. PICK f : f = [e EXCEPT !.replaced = TRUE, !.raced = e.raced \/ b]
    OBVIOUS
  <2>4. Marked(e, e) /\ Marked(e, f)
    BY <2>3, MarkCall
  <2>5. f.replaced /\ (b => f.raced)
    BY <2>3 DEF Edit
  <2>6. edit'[k] = IF OnList(e) /\ e.p = p THEN f ELSE e
    <3>1. edit'[k] = IF OnList(e) /\ e.p = p
                     THEN [e EXCEPT !.replaced = TRUE,
                                    !.raced = e.raced \/ (e.op = "push" /\ Listed(body, e.s))]
                     ELSE e
      BY <2>1 DEF UpdateBarberServices, OnList
    <3>2. (e.raced \/ (e.op = "push" /\ Listed(body, e.s))) = (e.raced \/ b)
      BY <2>2
    <3>3. QED
      BY <2>3, <3>1, <3>2
  <2>7. QED
    BY <2>1, <2>2, <2>4, <2>5, <2>6 DEF OnList, Holds
<1>5. EditsMove
  BY <1>2, <1>4 DEF EditsMove
<1>6. TitleSame
  BY <1>2, <1>4 DEF TitleSame, Watches, OnList, Marked
<1>7. ListSet(p, body, version[p])
  <2>1. version' = [version EXCEPT ![p] = version[p]] /\ version[p] <= version[p]
    BY <1>1, <1>2
  <2>2. QED
    BY <1>1, <1>2, <1>3, <1>4, <2>1 DEF ListSet
<1>8. UNCHANGED InCatalog
  BY <1>2 DEF InCatalog
<1>9. QED
  BY <1>5, <1>6, <1>7, <1>8

-----------------------------------------------------------------------------
(* The theorems *)

\* What a step may be.
LEMMA CatSteps ==
  ASSUME TitleInv, ListInv, CatNext
  PROVE  /\ EditsMove /\ InCatalog \subseteq InCatalog'
         /\ \/ TitleSame
            \/ \E k \in Editors : TitleChecked(k)
            \/ \E s, d : TitleSet(s, d)
         /\ \/ ListSame
            \/ \E k \in Editors : ListNew(k)
            \/ \E p, l, v : ListSet(p, l, v)
<1>1. CatTyped
  BY DEF TitleInv
<1>2. ASSUME NEW k \in Editors, NEW t \in Titles,
             CreateServiceCheck(k, t) \/ \E s \in Services : UpdateServiceCheck(k, s, t)
      PROVE  EditsMove /\ InCatalog \subseteq InCatalog' /\ TitleChecked(k) /\ ListSame
  BY <1>1, <1>2, CheckEffect
<1>3. ASSUME NEW k \in Editors,
             UpdateServiceSave(k) \/ \E s \in Services : CreateServiceSave(k, s)
      PROVE  /\ EditsMove /\ InCatalog \subseteq InCatalog' /\ ListSame
             /\ \E s, d : TitleSet(s, d)
  BY <1>1, <1>3, SaveEffect, CatalogGrows
<1>4. ASSUME NEW s \in Services, NEW active \in BOOLEAN, SetServiceActive(s, active)
      PROVE  /\ EditsMove /\ InCatalog \subseteq InCatalog' /\ ListSame
             /\ \E x, d : TitleSet(x, d)
  BY <1>1, <1>4, ActiveEffect, CatalogGrows
<1>5. ASSUME NEW k \in Editors, NEW p \in Profiles, NEW s \in Services,
             AddLoad(k, p, s) \/ \E op \in {"price", "splice"} : ListLoad(k, p, s, op)
      PROVE  EditsMove /\ InCatalog \subseteq InCatalog' /\ TitleSame /\ ListNew(k)
  BY <1>1, <1>5, ListLoadEffect
<1>6. ASSUME NEW k \in Editors, AddSave(k) \/ PriceSave(k) \/ RemoveSave(k)
      PROVE  /\ EditsMove /\ InCatalog \subseteq InCatalog' /\ TitleSame
             /\ ListSame \/ \E p, l, v : ListSet(p, l, v)
  BY <1>6, AddEffect, PriceEffect, RemoveEffect
<1>7. ASSUME NEW p \in Profiles, NEW body \in Bodies, UpdateBarberServices(p, body)
      PROVE  /\ EditsMove /\ InCatalog \subseteq InCatalog' /\ TitleSame
             /\ \E q, l, v : ListSet(q, l, v)
  BY <1>7, ReplaceEffect
<1>8. QED
  BY <1>2, <1>3, <1>4, <1>5, <1>6, <1>7 DEF CatNext

\* At first there is nothing.
LEMMA CatFirst == CatInit => TitleInv /\ ListInv
<1> SUFFICES ASSUME CatInit PROVE TitleInv /\ ListInv
  OBVIOUS
<1>1. NoService \in ServiceDoc /\ ~ NoService.stored
  BY DEF NoService, ServiceDoc
<1>2. InCatalog = {} /\ Active = {}
  BY <1>1 DEF CatInit, InCatalog, Active
<1>3. \A k \in Editors : edit[k] = NoEdit /\ EditOK(edit[k], InCatalog)
  BY NoEditType DEF CatInit, EditOK
<1>4. \A p \in Profiles : list[p] = <<>>
  BY DEF CatInit
<1>5. CatTyped
  <2>1. service \in [Services -> ServiceDoc] /\ list \in [Profiles -> Seq(Entry)]
    BY <1>1 DEF CatInit
  <2>2. edit \in [Editors -> Edit]
    BY NoEditType DEF CatInit
  <2>3. version \in [Profiles -> 0 .. MaxVersion] /\ mixed \subseteq Profiles
    BY CatalogConstants DEF CatInit
  <2>4. QED
    BY <1>3, <2>1, <2>2, <2>3 DEF CatTyped
<1>6. ChecksSee /\ TitlesDiffer
  BY <1>2 DEF ChecksSee, TitlesDiffer
<1>7. DOMAIN <<>> = {}
  OBVIOUS
<1>8. ListsAreFine
  BY <1>4, <1>7 DEF ListsAreFine, Fine, Fits, Apart
<1>9. CopiesAreFine /\ CopiesAgree /\ AdditionsAreNew
  BY <1>3, NoEditType DEF CopiesAreFine, CopiesAgree, AdditionsAreNew, Holds
<1>10. QED
  BY <1>5, <1>6, <1>8, <1>9 DEF TitleInv, ListInv

\* Every step keeps the invariants.
LEMMA CatStep == TitleInv /\ ListInv /\ [CatNext]_catVars => TitleInv' /\ ListInv'
<1> SUFFICES ASSUME TitleInv, ListInv, [CatNext]_catVars PROVE TitleInv' /\ ListInv'
  OBVIOUS
<1>1. CASE UNCHANGED catVars
  <2>1. /\ service' = service /\ list' = list /\ version' = version /\ edit' = edit
        /\ mixed' = mixed
    BY <1>1 DEF catVars
  <2>2. InCatalog' = InCatalog /\ Active' = Active
    BY <2>1 DEF InCatalog, Active
  <2>3. CatTyped'
    BY <2>1, <2>2 DEF TitleInv, CatTyped
  <2>4. ChecksSee' /\ TitlesDiffer'
    BY <2>1, <2>2 DEF TitleInv, ChecksSee, TitlesDiffer
  <2>5. ListsAreFine' /\ CopiesAreFine' /\ CopiesAgree' /\ AdditionsAreNew'
    BY <2>1, ListSameStep DEF ListSame
  <2>6. QED
    BY <2>3, <2>4, <2>5 DEF TitleInv, ListInv
<1>2. CASE CatNext
  <2>1. /\ EditsMove /\ InCatalog \subseteq InCatalog'
        /\ \/ TitleSame
           \/ \E k \in Editors : TitleChecked(k)
           \/ \E s, d : TitleSet(s, d)
        /\ \/ ListSame
           \/ \E k \in Editors : ListNew(k)
           \/ \E p, l, v : ListSet(p, l, v)
    BY <1>2, CatSteps
  <2>2. CatTyped /\ edit' \in [Editors -> Edit] /\ \A k \in Editors : EditOK(edit'[k], InCatalog')
    BY <2>1, EditsTyped DEF TitleInv
  <2>3. ChecksSee' /\ TitlesDiffer'
    BY <2>1, TitleSameStep, TitleCheckedStep, TitleSetStep
  <2>4. service' \in [Services -> ServiceDoc]
    BY <2>1, <2>2, CatalogGrows DEF CatTyped, TitleSame, TitleChecked
  <2>5. ListsAreFine' /\ CopiesAreFine' /\ CopiesAgree' /\ AdditionsAreNew'
    BY <2>1, <2>2, ListSameStep, ListNewStep, ListSetStep
  <2>6. /\ list' \in [Profiles -> Seq(Entry)] /\ version' \in [Profiles -> 0 .. MaxVersion]
        /\ mixed' \subseteq Profiles
    BY <2>1, <2>2, ListSetStep DEF CatTyped, ListSame, ListNew
  <2>7. QED
    BY <2>2, <2>3, <2>4, <2>5, <2>6 DEF TitleInv, ListInv, CatTyped
<1>3. QED
  BY <1>1, <1>2

\* The invariants hold throughout.
LEMMA CatInvariant == CatSpec => [](TitleInv /\ ListInv)
<1>1. CatInit => TitleInv /\ ListInv
  BY CatFirst
<1>2. TitleInv /\ ListInv /\ [CatNext]_catVars => (TitleInv /\ ListInv)'
  BY CatStep
<1>3. QED
  BY <1>1, <1>2, PTL DEF CatSpec

\* Documents, lists and calls have the fields of the schemas, and a call that saves an
\* element has found it in the list it loaded.
THEOREM CatTypeCorrect == CatSpec => []CatTypeOK
<1>1. TitleInv => CatTypeOK
  BY DEF TitleInv, CatTyped, CatTypeOK, EditOK, Edit
<1>2. QED
  BY <1>1, CatInvariant, PTL

\* createService and updateService keep the titles of active services apart, whatever the
\* number of calls, unless two of them raced or a service was made active again.
THEOREM ActiveTitlesDiffer == CatSpec => []TitlesDiffer
<1>1. TitleInv => TitlesDiffer
  BY DEF TitleInv
<1>2. QED
  BY <1>1, CatInvariant, PTL

\* The version that Mongoose compares keeps every price with its service.
THEOREM PricesStayWithServices == CatSpec => []PricesFit
<1>1. ListInv => PricesFit
  BY DEF ListInv, ListsAreFine, Fine, Fits, PricesFit
<1>2. QED
  BY <1>1, CatInvariant, PTL

\* addServiceToBarber puts no service twice in a list, except by a race that it lost;
\* what is twice in it besides came in one list that a request brought.
THEOREM ListedTwiceOnlyByRace == CatSpec => []TwiceOnlyByRace
<1>1. ListInv => TwiceOnlyByRace
  BY DEF ListInv, ListsAreFine, Fine, Apart, Excused, TwiceOnlyByRace
<1>2. QED
  BY <1>1, CatInvariant, PTL
=============================================================================
