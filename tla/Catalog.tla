------------------------------ MODULE Catalog ------------------------------
(***************************************************************************)
(* The services that administrators offer, and the list of services with   *)
(* prices in the profile of each barber: AdminServicesService,             *)
(* BarberServicesService and updateBarber.                                 *)
(*                                                                         *)
(* Documents are loaded, checked, changed in memory and saved.  Mongoose   *)
(* guards the list with the version of the document: a push increments it, *)
(* a save that changes one element requires the version that was loaded,   *)
(* and a save of the whole list requires it and increments it.  An update  *)
(* without load, as that of updateBarber, does neither.                    *)
(***************************************************************************)
EXTENDS Naturals, Sequences, SequencesExt

CONSTANTS
  Services, Titles,
  Profiles,    \* the barbers
  NoId,
  Editors,     \* bounds the calls in progress at the same time
  MaxServices, \* bounds the length of a list
  MaxVersion   \* bounds the versions of a profile

VARIABLES
  service, \* service[s]: the service document
  list,    \* list[p]: the services of a barber
  version, \* version[p]: __v of the barber
  edit,    \* edit[k]: what a call has still to do, and what it has read
  mixed    \* history: barbers saved from a list that updateBarber had replaced

catVars == <<service, list, version, edit, mixed>>

-----------------------------------------------------------------------------
(* Documents *)

\* The last two are history: another service got the title while the title of this
\* one was checked; it was made active again, which checks no title.
ServiceDoc == [stored  : BOOLEAN,
               name    : Titles \cup {NoId},
               active  : BOOLEAN,
               raced   : BOOLEAN,
               revived : BOOLEAN]
NoService == [stored |-> FALSE, name |-> NoId, active |-> FALSE,
              raced |-> FALSE, revived |-> FALSE]

\* A price is known by the service it was asked for.  The last two are history: the
\* service was added while another call was adding it; the body that the element came
\* with names its service twice.
Entry == [serviceId : Services \cup {NoId}, price : Services \cup {NoId},
          raced : BOOLEAN, doubled : BOOLEAN]
NoEntry == [serviceId |-> NoId, price |-> NoId, raced |-> FALSE, doubled |-> FALSE]
Priced(s) == [NoEntry EXCEPT !.serviceId = s, !.price = s]

InCatalog == {s \in Services : service[s].stored}
Active == {s \in InCatalog : service[s].active}
Listed(l, s) == \E i \in DOMAIN l : l[i].serviceId = s
IndexOf(l, s) == CHOOSE i \in DOMAIN l : /\ l[i].serviceId = s
                                         /\ \A j \in 1..(i - 1) : l[j].serviceId # s

EditOps == {"idle", "create", "rename", "push", "price", "splice"}
NoEdit == [op |-> "idle", s |-> NoId, title |-> NoId, p |-> NoId, list |-> <<>>,
           version |-> 0, raced |-> FALSE, replaced |-> FALSE]

ASSUME CatalogConstants ==
  /\ NoId \notin Services \cup Titles \cup Profiles
  /\ MaxServices \in Nat /\ MaxVersion \in Nat

CatInit ==
  /\ service = [s \in Services |-> NoService]
  /\ list = [p \in Profiles |-> <<>>]
  /\ version = [p \in Profiles |-> 0]
  /\ edit = [k \in Editors |-> NoEdit]
  /\ mixed = {}

Open(k, new) == edit[k] = NoEdit /\ edit' = [edit EXCEPT ![k] = new]
Close(k) == edit' = [edit EXCEPT ![k] = NoEdit]

-----------------------------------------------------------------------------
(* Services *)

\* Mutant of TitleTaken: only the service itself is looked at.
TitleTakenNever(t, s) == s \in Active /\ service[s].name = t

\* Another active service has the title.
TitleTaken(t, s) == \E x \in Active \ {s} : service[x].name = t

\* Service s is active under title t from now on: calls that have checked t missed it.
Missed(s, t, others) ==
  [k \in Editors |->
     IF k \in others /\ edit[k].op \in {"create", "rename"} /\ edit[k].title = t /\ edit[k].s # s
     THEN [edit[k] EXCEPT !.raced = TRUE] ELSE edit[k]]

CreateServiceCheck(k, t) ==
  /\ ~ TitleTaken(t, NoId)
  /\ Open(k, [NoEdit EXCEPT !.op = "create", !.title = t])
  /\ UNCHANGED <<service, list, version, mixed>>

CreateServiceSave(k, s) ==
  LET t == edit[k].title
  IN  /\ edit[k].op = "create" /\ s \notin InCatalog
      /\ service' = [service EXCEPT ![s] =
           [NoService EXCEPT !.stored = TRUE, !.name = t, !.active = TRUE,
                             !.raced = edit[k].raced]]
      /\ edit' = [Missed(s, t, Editors \ {k}) EXCEPT ![k] = NoEdit]
      /\ UNCHANGED <<list, version, mixed>>

\* updateService with a new title; what else it changes is not looked at by others.
UpdateServiceCheck(k, s, t) ==
  /\ s \in InCatalog /\ t # service[s].name /\ ~ TitleTaken(t, s)
  /\ Open(k, [NoEdit EXCEPT !.op = "rename", !.s = s, !.title = t])
  /\ UNCHANGED <<service, list, version, mixed>>

UpdateServiceSave(k) ==
  LET s == edit[k].s
      t == edit[k].title
  IN  /\ edit[k].op = "rename"
      /\ service' = [service EXCEPT ![s].name = t, ![s].raced = edit[k].raced]
      /\ edit' = [(IF service[s].active THEN Missed(s, t, Editors \ {k}) ELSE edit)
                    EXCEPT ![k] = NoEdit]
      /\ UNCHANGED <<list, version, mixed>>

\* deleteService, updateServiceStatus, and updateService with isActive: whatever was
\* loaded, the save sets the field.
SetServiceActive(s, active) ==
  /\ s \in InCatalog /\ service[s].active # active
  /\ service' = [service EXCEPT ![s].active = active, ![s].revived = active]
  /\ edit' = IF active THEN Missed(s, service[s].name, Editors) ELSE edit
  /\ UNCHANGED <<list, version, mixed>>

-----------------------------------------------------------------------------
(* The list of a barber *)

\* Barber p gets service s in its list by another call than k.
Passed(k, p, s) ==
  [j \in Editors |-> IF j = k THEN NoEdit
                     ELSE IF edit[j].op = "push" /\ edit[j].p = p /\ edit[j].s = s
                     THEN [edit[j] EXCEPT !.raced = TRUE] ELSE edit[j]]

\* Mutant of AddLoad: the list is not looked at.
AddLoadTwice(k, p, s) ==
  /\ s \in Active
  /\ Open(k, [NoEdit EXCEPT !.op = "push", !.p = p, !.s = s])
  /\ UNCHANGED <<service, list, version, mixed>>

\* addServiceToBarber: the service is active, and not in the list.
AddLoad(k, p, s) ==
  /\ s \in Active /\ ~ Listed(list[p], s)
  /\ Open(k, [NoEdit EXCEPT !.op = "push", !.p = p, !.s = s])
  /\ UNCHANGED <<service, list, version, mixed>>

\* The push does not look at the version.
AddSave(k) ==
  LET p == edit[k].p
      s == edit[k].s
  IN  /\ edit[k].op = "push" /\ Len(list[p]) < MaxServices /\ version[p] < MaxVersion
      /\ list' = [list EXCEPT ![p] = Append(@, [Priced(s) EXCEPT !.raced = edit[k].raced])]
      /\ version' = [version EXCEPT ![p] = @ + 1]
      /\ edit' = Passed(k, p, s)
      /\ UNCHANGED <<service, mixed>>

\* updateBarberService and removeServiceFromBarber load the barber.
ListLoad(k, p, s, op) ==
  /\ Listed(list[p], s)
  /\ Open(k, [NoEdit EXCEPT !.op = op, !.p = p, !.s = s,
                            !.list = list[p], !.version = version[p]])
  /\ UNCHANGED <<service, list, version, mixed>>

\* Mutant of Loaded: no version is compared.
LoadedAny(k) == TRUE

\* The barber has the version that was loaded.
Loaded(k) == version[edit[k].p] = edit[k].version

\* Positional $set: Mongo fills the places in between when the list has become shorter.
SetPrice(l, i, s) ==
  [j \in 1..(IF i > Len(l) THEN i ELSE Len(l)) |->
     LET e == IF j <= Len(l) THEN l[j] ELSE NoEntry
     IN  IF j = i THEN [e EXCEPT !.price = s] ELSE e]

\* updateBarberService has saved the service with the fields that only travel; now it
\* saves the price, or throws.
PriceSave(k) ==
  LET p == edit[k].p
      i == IndexOf(edit[k].list, edit[k].s)
  IN  /\ edit[k].op = "price"
      /\ IF Loaded(k)
         THEN /\ list' = [list EXCEPT ![p] = SetPrice(@, i, edit[k].s)]
              /\ mixed' = IF edit[k].replaced THEN mixed \cup {p} ELSE mixed
         ELSE UNCHANGED <<list, mixed>>
      /\ Close(k)
      /\ UNCHANGED <<service, version>>

\* removeServiceFromBarber saves the list it loaded without the element, or throws.
RemoveSave(k) ==
  LET p == edit[k].p
      i == IndexOf(edit[k].list, edit[k].s)
  IN  /\ edit[k].op = "splice" /\ version[p] < MaxVersion
      /\ IF Loaded(k)
         THEN /\ list' = [list EXCEPT ![p] = RemoveAt(edit[k].list, i)]
              /\ version' = [version EXCEPT ![p] = @ + 1]
              /\ mixed' = IF edit[k].replaced THEN mixed \cup {p} ELSE mixed
         ELSE UNCHANGED <<list, version, mixed>>
      /\ Close(k)
      /\ UNCHANGED service

\* The lists of services that a request may bring: nothing compares them with the
\* catalog, and nothing refuses one that names a service twice.
Listings == UNION {[1..n -> Services] : n \in 0..MaxServices}
Body(ss) ==
  [i \in DOMAIN ss |->
     [Priced(ss[i]) EXCEPT !.doubled = \E j \in DOMAIN ss : j # i /\ ss[j] = ss[i]]]
Bodies == {Body(ss) : ss \in Listings}

\* updateBarber with services: the list becomes that of the body.  So does the empty
\* list of a barber whose profile is created with services.
UpdateBarberServices(p, body) ==
  /\ list' = [list EXCEPT ![p] = body]
  /\ edit' = [k \in Editors |->
       IF edit[k].op \in {"push", "price", "splice"} /\ edit[k].p = p
       THEN [edit[k] EXCEPT !.replaced = TRUE,
                            !.raced = @ \/ (edit[k].op = "push" /\ Listed(body, edit[k].s))]
       ELSE edit[k]]
  /\ UNCHANGED <<service, version, mixed>>

-----------------------------------------------------------------------------
CatNext ==
  \/ \E k \in Editors :
       \/ \E t \in Titles :
            \/ CreateServiceCheck(k, t)
            \/ \E s \in Services : UpdateServiceCheck(k, s, t)
       \/ \E s \in Services : CreateServiceSave(k, s)
       \/ UpdateServiceSave(k)
       \/ \E p \in Profiles, s \in Services :
            AddLoad(k, p, s) \/ ListLoad(k, p, s, "price") \/ ListLoad(k, p, s, "splice")
       \/ AddSave(k) \/ PriceSave(k) \/ RemoveSave(k)
  \/ \E s \in Services, active \in BOOLEAN : SetServiceActive(s, active)
  \/ \E p \in Profiles, body \in Bodies : UpdateBarberServices(p, body)

CatSpec == CatInit /\ [][CatNext]_catVars

-----------------------------------------------------------------------------
(* Properties *)

\* Type invariant; a call that saves an element has found it in the list it loaded.
CatTypeOK ==
  /\ service \in [Services -> ServiceDoc]
  /\ list \in [Profiles -> Seq(Entry)]
  /\ version \in [Profiles -> 0..MaxVersion]
  /\ \A k \in Editors :
       /\ edit[k].op \in EditOps
       /\ edit[k].op \in {"price", "splice"} => Listed(edit[k].list, edit[k].s)
       /\ edit[k].op = "rename" => edit[k].s \in InCatalog
  /\ mixed \subseteq Profiles

\* Two active services have the same title only if one got it while the title of the
\* other was being checked, or one was made active again.
TitlesDiffer ==
  \A s, t \in Active : s # t /\ service[s].name = service[t].name =>
    \E x \in {s, t} : service[x].raced \/ service[x].revived

\* Every element of a list has the price of its own service, however additions,
\* removals and price changes interleave, as long as updateBarber does not replace
\* the list while another call holds it.
PricesFit ==
  \A p \in Profiles \ mixed : \A i \in DOMAIN list[p] :
    list[p][i].serviceId # NoId /\ list[p][i].price = list[p][i].serviceId

\* A service is twice in a list only if one of the two was added while it was being
\* added by another call, or if both came with a body that names it twice.
TwiceOnlyByRace ==
  \A p \in Profiles \ mixed : \A i, j \in DOMAIN list[p] :
    i # j /\ list[p][i].serviceId = list[p][j].serviceId =>
      \/ list[p][i].raced \/ list[p][j].raced
      \/ list[p][i].doubled /\ list[p][j].doubled
=============================================================================
