------------------------------- MODULE Providers -------------------------------
(***************************************************************************)
(* The records of shops, mobile shops and towers: applied for, reviewed,   *)
(* edited, reported, suspended and revoked (provider/crud, provider/admin, *)
(* providerRepository, providerReportRepository), the vehicles they are    *)
(* linked to (vehicleProfileService), and the rows that show where they are *)
(* (provider/location, providerLocationRepository).                        *)
(*                                                                         *)
(* A call first Looks: it reads, decides, and knows its writes; then it makes *)
(* them one at a time, while others do the same.  It may die before any write. *)
(* Documents a call creates are named by its number; a tower's record is named *)
(* by its plate.  What tickets do to a provider is one step each (named bound). *)
(***************************************************************************)
EXTENDS Naturals, FiniteSets, SequencesExt

CONSTANTS Users,       \* the people who operate providers
          Plates,      \* the number plates of their vehicles
          Types,       \* the types of vehicle, "CAR" among them
          Requests,    \* slots for calls in flight
          Cron,        \* the slot of the scheduled sweep
          Nothing,        \* no plate, no vehicle, no report
          Founded,     \* the states that a behaviour may start from, each with its
                       \* office: the desks that are open, the calls it may make
          MaxCalls     \* bound: the calls that any behaviour may make

ASSUME ProvidersAssumption ==
  /\ "CAR" \in Types /\ MaxCalls \in Nat /\ Cron \notin Requests
  /\ Plates \cap Nat = {} /\ Users \cap (Plates \cup Nat) = {}
  /\ Nothing \notin Nat \cup Plates \cup Types \cup Users

VARIABLES prov,     \* providers: a partial function from ids to records
          vehicle,  \* users/*/vehicle_profiles: from ids to the owner and the type
          chosen,   \* the active vehicle of each user
          row,      \* provider_locations: "fresh" or "stale" for those that have a row
          report,   \* provider_reports
          jobs,     \* <<provider, how>>: tickets "assigned", "pending" or "named" to it
          req,      \* for each slot, the writes its call has left
          calls,    \* the calls so far
          office,   \* bound: the office of this behaviour
          died,     \* history: some call died
          tangled   \* history: some call looked while another was under way

vars == <<prov, vehicle, chosen, row, report, jobs, req, calls, office, died, tangled>>

Slots == Requests \cup {Cron}
Call == calls + 1

-----------------------------------------------------------------------------
(* Records, and how they agree with each other and with the vehicles.      *)

Kinds == {"SHOP", "MOBILE_SHOP", "TOW"}
Ids == Plates \cup Nat
ProviderDoc ==
  [kind : Kinds, op : Users, plate : Plates \cup {Nothing}, type : Types \cup {Nothing},
   vehicle : Nat \cup {Nothing}, status : {"PENDING", "ACTIVE", "DENIED"},
   suspended : BOOLEAN, accepting : BOOLEAN]
VehicleDoc == [owner : Users, type : Types]
ReportDoc == [i : Ids, by : Users, status : {"OPEN", "DISMISSED", "RESOLVED"}]

\* The records on one plate, whether named by it or carrying it, are one operator's.
OnPlate(prv, p) == {i \in DOMAIN prv : i = p \/ prv[i].plate = p}
OneAccountPerPlate(prv) ==
  \A p \in Plates : \A i, j \in OnPlate(prv, p) : prv[i].op = prv[j].op

\* No operator holds two records of a kind that are not denied.
OneRecordPerKind(prv) ==
  \A i, j \in DOMAIN prv :
    /\ prv[i].op = prv[j].op /\ prv[i].kind = prv[j].kind
    /\ prv[i].status # "DENIED" /\ prv[j].status # "DENIED"
    => i = j

\* A linked vehicle is there and is the operator's.
VehicleIsOwn(prv, veh) ==
  \A i \in DOMAIN prv : prv[i].vehicle # Nothing =>
    prv[i].vehicle \in DOMAIN veh /\ veh[prv[i].vehicle].owner = prv[i].op

ASSUME FoundedAssumption ==
  \A f \in Founded :
    /\ DOMAIN f.prov \subseteq Plates \cup {0} /\ IsFiniteSet(DOMAIN f.prov)
    /\ \A i \in DOMAIN f.prov : f.prov[i] \in ProviderDoc
    /\ DOMAIN f.vehicle \subseteq {0} /\ \A v \in DOMAIN f.vehicle : f.vehicle[v] \in VehicleDoc
    /\ DOMAIN f.report \subseteq {0} /\ \A k \in DOMAIN f.report : f.report[k] \in ReportDoc
    /\ OneAccountPerPlate(f.prov) /\ OneRecordPerKind(f.prov) /\ VehicleIsOwn(f.prov, f.vehicle)

Init ==
  /\ \E f \in Founded : prov = f.prov /\ vehicle = f.vehicle /\ report = f.report /\ office = f.office
  /\ chosen = [u \in Users |-> Nothing]
  /\ row = <<>> /\ jobs = {} /\ calls = 0 /\ died = FALSE /\ tangled = FALSE
  /\ req = [r \in Slots |-> <<>>]

-----------------------------------------------------------------------------
(* Reads.                                                                  *)

IsMobile(i) == prov[i].kind \in {"TOW", "MOBILE_SHOP"}
Busy(i, how) == <<i, how>> \in jobs
IsActive(i) == prov[i].status = "ACTIVE" /\ ~prov[i].suspended

FindByOperator(u) == {i \in DOMAIN prov : prov[i].op = u}
Operates(u, kind) == \E i \in FindByOperator(u) : prov[i].kind = kind /\ prov[i].status # "DENIED"

\* The record the plate names, or else any one that carries it.
FindByPlate(plate) ==
  LET carrying == {i \in DOMAIN prov : prov[i].plate = plate}
  IN IF plate \in DOMAIN prov THEN {plate} ELSE IF carrying = {} THEN {Nothing} ELSE carrying

-----------------------------------------------------------------------------
(* Writes.                                                                 *)

Patch(i, fields) == [to |-> "provider", i |-> i, fields |-> fields]
OffMap(i) == [to |-> "row", i |-> i, at |-> "none"]
OnMap(i) == [to |-> "row", i |-> i, at |-> "fresh"]

\* Mutant of Fails: a tower's record is set, whoever has it.
FailsSet(w) ==
  CASE w.to = "decide" -> prov[w.i].status # "PENDING"
    [] w.to = "report" -> report[w.i].status # "OPEN"
    [] w.to = "retype" -> w.i \notin DOMAIN vehicle
    [] OTHER -> FALSE

\* Mutant of Fails: what was read of a report is not read again.
FailsDecided(w) ==
  CASE w.to = "create" -> w.i \in DOMAIN prov
    [] w.to = "decide" -> prov[w.i].status # "PENDING"
    [] w.to = "retype" -> w.i \notin DOMAIN vehicle
    [] OTHER -> FALSE

\* A create fails on a record that is there, an update on one that is not, and a
\* decision on one that is decided: the call ends without its other writes.
Fails(w) ==
  CASE w.to = "create" -> w.i \in DOMAIN prov
    [] w.to = "decide" -> prov[w.i].status # "PENDING"
    [] w.to = "report" -> report[w.i].status # "OPEN"
    [] w.to = "retype" -> w.i \notin DOMAIN vehicle
    [] OTHER -> FALSE

Drop(f, i) == [j \in DOMAIN f \ {i} |-> f[j]]
Over(f, i, x) == [j \in DOMAIN f \cup {i} |-> IF j = i THEN x ELSE f[j]]
With(doc, fields) == [k \in DOMAIN doc |-> IF k \in DOMAIN fields THEN fields[k] ELSE doc[k]]

Apply(w) ==
  /\ prov' = CASE w.to = "create" -> Over(prov, w.i, w.fields)
               [] w.to \in {"provider", "decide"} -> Over(prov, w.i, With(prov[w.i], w.fields))
               [] OTHER -> prov
  /\ vehicle' = CASE w.to = "vehicle" -> Over(vehicle, w.i, w.fields)
                  [] w.to = "retype" -> Over(vehicle, w.i, With(vehicle[w.i], w.fields))
                  [] w.to = "scrap" -> Drop(vehicle, w.i)
                  [] OTHER -> vehicle
  /\ chosen' = IF w.to = "chosen" THEN [chosen EXCEPT ![w.i] = w.v] ELSE chosen
  /\ row' = CASE w.to = "row" /\ w.at = "none" -> Drop(row, w.i)
              [] w.to = "row" /\ w.at # "none" -> Over(row, w.i, w.at)
              [] OTHER -> row
  /\ report' = CASE w.to = "reported" -> Over(report, w.i, w.fields)
                 [] w.to = "report" -> Over(report, w.i, With(report[w.i], w.fields))
                 [] OTHER -> report

\* The call in slot r makes its next write.
Write(r) ==
  /\ req[r] # <<>>
  /\ IF Fails(Head(req[r]))
     THEN req' = [req EXCEPT ![r] = <<>>] /\ UNCHANGED <<prov, vehicle, chosen, row, report>>
     ELSE req' = [req EXCEPT ![r] = Tail(@)] /\ Apply(Head(req[r]))
  /\ UNCHANGED <<jobs, calls, office, died, tangled>>

\* The call throws or its instance dies.
Die(r) ==
  /\ req[r] # <<>> /\ ~died
  /\ req' = [req EXCEPT ![r] = <<>>] /\ died' = TRUE
  /\ UNCHANGED <<prov, vehicle, chosen, row, report, jobs, calls, office, tangled>>

Looks(r, writes) ==
  /\ req[r] = <<>>
  /\ req' = [req EXCEPT ![r] = writes]
  /\ tangled' = (tangled \/ \E q \in Slots : req[q] # <<>>)
  /\ UNCHANGED <<prov, vehicle, chosen, row, report, jobs, office, died>>
Look(r, writes) == calls < office.calls /\ calls' = Call /\ Looks(r, writes)

-----------------------------------------------------------------------------
(* POST /providers.                                                        *)

Blank(kind, u) ==
  [kind |-> kind, op |-> u, plate |-> Nothing, type |-> Nothing, vehicle |-> Nothing,
   status |-> "PENDING", suspended |-> FALSE, accepting |-> FALSE]
Vehicled(kind, u, plate, type, v) ==
  [Blank(kind, u) EXCEPT !.plate = plate, !.type = type, !.vehicle = v]
Create(i, doc) == [to |-> "create", i |-> i, fields |-> doc]

\* createShop: the record of a shop.
CreateShopProvider(r, u) ==
  /\ ~Operates(u, "SHOP")
  /\ Look(r, <<Create(Call, Blank("SHOP", u))>>)

\* A record without a vehicle gets a new one, and so does the other record on its plate.
LinkVehicle(i, u, type, other) ==
  <<[to |-> "vehicle", i |-> Call, fields |-> [owner |-> u, type |-> type]],
    Patch(i, [vehicle |-> Call])>>
  \o IF other \in {Nothing, i} THEN <<>> ELSE <<Patch(other, [vehicle |-> Call])>>

\* The record i of a kind with a vehicle; e is the record found on its plate.
Licensed(kind, i, u, plate, type, e) ==
  LET other == IF e # Nothing /\ prov[e].type = type THEN e ELSE Nothing
      v == IF other # Nothing THEN prov[other].vehicle ELSE Nothing
  IN <<Create(i, Vehicled(kind, u, plate, type, v))>>
     \o IF v # Nothing THEN <<>> ELSE LinkVehicle(i, u, type, other)

\* Mutant of MayRegister: the plate of another operator is not looked at.
MayRegisterAny(u, kind, e) == ~Operates(u, kind)

MayRegister(u, kind, e) == ~Operates(u, kind) /\ (e # Nothing => prov[e].op = u)

\* createMobileShop: the record of a mobile shop, under an id of its own.
CreateMobileShopProvider(r, u, plate, type) ==
  \E e \in FindByPlate(plate) :
    MayRegister(u, "MOBILE_SHOP", e) /\ Look(r, Licensed("MOBILE_SHOP", Call, u, plate, type, e))

\* createTow: the record of a tower, which must be the first under its plate.
CreateTowProvider(r, u, plate) ==
  \E e \in FindByPlate(plate) :
    MayRegister(u, "TOW", e) /\ Look(r, Licensed("TOW", plate, u, plate, "CAR", e))

-----------------------------------------------------------------------------
(* PUT /providers.                                                         *)

\* assertAcceptingChange: no tower goes on or off duty during a job, no shop closes
\* while a ticket is assigned, addressed or towed to it.
MayChangeDuty(i, accepting) ==
  CASE prov[i].kind = "TOW" -> ~Busy(i, "assigned")
    [] prov[i].kind = "SHOP" /\ ~accepting -> ~\E how \in {"assigned", "pending", "named"} : Busy(i, how)
    [] OTHER -> TRUE

UpdateDuty(r, i, accepting) ==
  /\ MayChangeDuty(i, accepting)
  /\ Look(r, <<Patch(i, [accepting |-> accepting])>> \o IF accepting THEN <<>> ELSE <<OffMap(i)>>)

\* A new plate: the vehicle of the operator's other record on it is taken over or, if
\* it has none, given this one's, before anything else is written.
Compatible(i, e) == e # Nothing /\ e # i /\ prov[e].type = prov[i].type
TakeOver(i, e, plate) ==
  IF Compatible(i, e) /\ prov[e].vehicle # Nothing
  THEN [plate |-> plate, vehicle |-> prov[e].vehicle] ELSE [plate |-> plate]
LendTo(i, e) ==
  IF Compatible(i, e) /\ prov[e].vehicle = Nothing /\ prov[i].vehicle # Nothing
  THEN <<Patch(e, [vehicle |-> prov[i].vehicle])>> ELSE <<>>

MayDrive(i, e) ==
  IsMobile(i) /\ ~Busy(i, "assigned") /\ (e \notin {Nothing, i} => prov[e].op = prov[i].op)

UpdatePlate(r, i, plate) ==
  \E e \in FindByPlate(plate) :
    /\ MayDrive(i, e)
    /\ Look(r, LendTo(i, e) \o <<Patch(i, TakeOver(i, e, plate))>>)

\* A new type is written to the linked vehicle too; a tower stays a car.
UpdateType(r, i, type) ==
  /\ MayDrive(i, Nothing) /\ (prov[i].kind = "TOW" => type = "CAR")
  /\ Look(r, <<Patch(i, [type |-> type])>>
             \o IF prov[i].vehicle = Nothing THEN <<>>
                ELSE <<[to |-> "retype", i |-> prov[i].vehicle, fields |-> [type |-> type]]>>)

-----------------------------------------------------------------------------
(* Review, revocation, suspension and reports.                             *)

Denied == [status |-> "DENIED", accepting |-> FALSE, vehicle |-> Nothing]

\* decide, a transaction; then the duty switch; then the row of a refused one.
ReviewProvider(r, i, approve) ==
  Look(r, <<[to |-> "decide", i |-> i, fields |-> [status |-> IF approve THEN "ACTIVE" ELSE "DENIED"]],
            Patch(i, [accepting |-> approve])>>
          \o IF approve THEN <<>> ELSE <<OffMap(i)>>)

\* What stands in the way of a revocation.
Engaged(i) == Busy(i, "assigned") \/ (prov[i].kind = "SHOP" /\ (Busy(i, "pending") \/ Busy(i, "named")))

RevokeProvider(r, i) ==
  ~Engaged(i) /\ Look(r, <<Patch(i, Denied), OffMap(i)>>)

ReportProvider(r, i, u) ==
  /\ IsActive(i)
  /\ ~\E k \in DOMAIN report : report[k].i = i /\ report[k].by = u /\ report[k].status = "OPEN"
  /\ Look(r, <<[to |-> "reported", i |-> Call, fields |-> [i |-> i, by |-> u, status |-> "OPEN"]]>>)

Decision(k, status) == [to |-> "report", i |-> k, fields |-> [status |-> status]]

DismissReport(r, k) == Look(r, <<Decision(k, "DISMISSED")>>)

\* suspendProvider, with the report it answers, if any.
SuspendProvider(r, i, k) ==
  Look(r, <<Patch(i, [suspended |-> TRUE, accepting |-> FALSE]), OffMap(i)>>
          \o IF k = Nothing THEN <<>> ELSE <<Decision(k, "RESOLVED")>>)

RestoreProvider(r, i) ==
  prov[i].suspended /\ Look(r, <<Patch(i, [suspended |-> FALSE, accepting |-> FALSE])>>)

-----------------------------------------------------------------------------
(* Vehicles.                                                               *)

\* createProfile
CreateProfile(r, u, type) ==
  Look(r, <<[to |-> "vehicle", i |-> Call, fields |-> [owner |-> u, type |-> type]]>>)

SetActiveVehicle(r, u, v) ==
  (v # Nothing => vehicle[v].owner = u) /\ Look(r, <<[to |-> "chosen", i |-> u, v |-> v]>>)

Linked(v) == {i \in DOMAIN prov : prov[i].vehicle = v}

\* Each of these licences is denied and unlinked, then its row goes.
Unlink(linked) ==
  LET s == SetToSeq(linked)
  IN [n \in 1..2 * Len(s) |-> IF n % 2 = 1 THEN Patch(s[(n + 1) \div 2], Denied) ELSE OffMap(s[n \div 2])]
Scrap(v) == [to |-> "scrap", i |-> v]

\* Mutant of RemoveProfile: the vehicle goes first, the licences after it.
RemoveVehicleFirst(r, v) ==
  /\ \A i \in Linked(v) : ~Engaged(i)
  /\ Look(r, <<Scrap(v)>> \o Unlink(Linked(v)))

\* removeProfile: every provider linked to the vehicle is denied and unlinked before
\* the vehicle goes, and the operator's choice of it last.
RemoveProfile(r, v) ==
  LET u == vehicle[v].owner
  IN /\ \A i \in Linked(v) : ~Engaged(i)
     /\ Look(r, Unlink(Linked(v)) \o <<Scrap(v)>>
                \o IF chosen[u] = v THEN <<[to |-> "chosen", i |-> u, v |-> Nothing]>> ELSE <<>>)

-----------------------------------------------------------------------------
(* Where providers are.                                                    *)

MayShare(i) == IsMobile(i) /\ IsActive(i) /\ (prov[i].accepting \/ Busy(i, "assigned"))

\* updateProviderLocation: a ping puts every provider of the caller that may share on the map.
UpdateProviderLocation(r, u) ==
  LET sharing == {i \in FindByOperator(u) : MayShare(i)}
  IN sharing # {} /\ Look(r, [n \in 1..Cardinality(sharing) |-> OnMap(SetToSeq(sharing)[n])])

\* PROVIDER_FRESH_MS pass without a ping.
GrowsStale(i) ==
  /\ i \in DOMAIN row /\ row[i] = "fresh" /\ row' = [row EXCEPT ![i] = "stale"]
  /\ UNCHANGED <<prov, vehicle, chosen, report, jobs, req, calls, office, died, tangled>>

\* Mutant of StaleRows: only the rows of providers that may share are old enough.
StaleSharing == {i \in DOMAIN row : row[i] = "stale" /\ MayShare(i)}

StaleRows == {i \in DOMAIN row : row[i] = "stale"}

\* deleteStale: the rows listed are deleted, even one that a ping has renewed since.
SweepStalePresence ==
  StaleRows # {} /\ calls' = calls
    /\ Looks(Cron, [n \in 1..Cardinality(StaleRows) |-> OffMap(SetToSeq(StaleRows)[n])])

-----------------------------------------------------------------------------
(* What tickets do to a provider (module Dispatch has their steps).        *)

Ticketed(i, accepting, to) ==
  /\ jobs' = to /\ prov' = [prov EXCEPT ![i].accepting = accepting]
  /\ tangled' = (tangled \/ \E q \in Requests : req[q] # <<>>)
  /\ UNCHANGED <<vehicle, chosen, row, report, req, calls, office, died>>

\* A rider addresses a walk-in to a shop, or names it as the drop-off of a tow.
Address(i) ==
  /\ prov[i].kind = "SHOP" /\ IsActive(i) /\ prov[i].accepting
  /\ \E how \in {"pending", "named"} : Ticketed(i, TRUE, jobs \cup {<<i, how>>})

\* The operator accepts: one job for all of an operator's vehicles; a tower goes off duty.
AcceptAsShop(i) ==
  /\ IsActive(i) /\ prov[i].accepting
  /\ IF prov[i].kind = "SHOP" THEN Busy(i, "pending")
     ELSE \A j \in FindByOperator(prov[i].op) : IsMobile(j) => ~Busy(j, "assigned")
  /\ Ticketed(i, prov[i].kind # "TOW", (jobs \ {<<i, "pending">>}) \cup {<<i, "assigned">>})

\* The ticket closes, and a tower is on duty again, whatever became of it meanwhile.
TicketCloses(i) ==
  \E how \in {"assigned", "pending", "named"} :
    /\ Busy(i, how)
    /\ Ticketed(i, IF prov[i].kind = "TOW" THEN TRUE ELSE prov[i].accepting, jobs \ {<<i, how>>})

-----------------------------------------------------------------------------
Register(r) ==
  /\ "register" \in office.desks
  /\ \E u \in Users :
       \/ CreateShopProvider(r, u)
       \/ \E p \in Plates : CreateTowProvider(r, u, p)
       \/ \E p \in Plates, t \in Types : CreateMobileShopProvider(r, u, p, t)
Edit(r) ==
  /\ "edit" \in office.desks
  /\ \E i \in DOMAIN prov :
       \/ \E b \in BOOLEAN : UpdateDuty(r, i, b)
       \/ \E p \in Plates : UpdatePlate(r, i, p)
       \/ \E t \in Types : UpdateType(r, i, t)
License(r) ==
  /\ "license" \in office.desks
  /\ \E i \in DOMAIN prov : RevokeProvider(r, i) \/ \E b \in BOOLEAN : ReviewProvider(r, i, b)
Discipline(r) ==
  /\ "discipline" \in office.desks
  /\ \/ \E i \in DOMAIN prov :
          \/ RestoreProvider(r, i)
          \/ \E u \in Users \ {prov[i].op} : ReportProvider(r, i, u)
          \/ \E k \in DOMAIN report \cup {Nothing} : SuspendProvider(r, i, k)
     \/ \E k \in DOMAIN report : DismissReport(r, k)
Garage(r) ==
  /\ "garage" \in office.desks
  /\ \/ \E u \in Users :
          \/ \E t \in Types : CreateProfile(r, u, t)
          \/ \E v \in DOMAIN vehicle \cup {Nothing} : SetActiveVehicle(r, u, v)
     \/ \E v \in DOMAIN vehicle : RemoveProfile(r, v)
Presence(r) == "map" \in office.desks /\ \E u \in Users : UpdateProviderLocation(r, u)
Ticketing(i) == "tickets" \in office.desks /\ (Address(i) \/ AcceptAsShop(i) \/ TicketCloses(i))

Next ==
  \/ \E r \in Requests : Register(r) \/ Edit(r) \/ License(r) \/ Discipline(r) \/ Garage(r) \/ Presence(r)
  \/ \E r \in Slots : Write(r) \/ Die(r)
  \/ \E i \in DOMAIN prov : GrowsStale(i) \/ Ticketing(i)
  \/ SweepStalePresence

\* A call that does not die goes on, time passes, and the sweep runs every minute.
Spec ==
  /\ Init /\ [][Next]_vars
  /\ \A r \in Slots : WF_vars(Write(r))
  /\ \A i \in Plates \cup 0..MaxCalls : WF_vars(GrowsStale(i))
  /\ WF_vars(SweepStalePresence)

-----------------------------------------------------------------------------
(* Properties.                                                             *)

\* However calls overlap and wherever they die, a record keeps its operator and its
\* kind, a licence once denied is not given again (a review that was under way when
\* the licence was revoked fails), and a report is decided once (createTow,
\* reviewProvider, revokeProvider, suspendProvider).
LicenceStands ==
  [][/\ \A i \in DOMAIN prov :
          /\ i \in DOMAIN prov'
          /\ prov'[i].op = prov[i].op /\ prov'[i].kind = prov[i].kind
          /\ prov[i].status = "DENIED" => prov'[i].status = "DENIED"
     /\ \A k \in DOMAIN report :
          report[k].status # "OPEN" => report'[k].status = report[k].status]_vars

\* As long as no call or ticket came between another call's look and its writes, even
\* if calls die half-way: the records on one plate are one operator's, no operator
\* holds two records of a kind that are not denied, a linked vehicle is there and is
\* the operator's, and a job is assigned to active licences only (createTow,
\* createMobileShop, updateProvider, revokeProvider, removeProfile).
JobIsLicensed == \A j \in jobs : j[2] = "assigned" => prov[j[1]].status = "ACTIVE"
RecordsAgree ==
  ~tangled =>
    /\ OneAccountPerPlate(prov) /\ OneRecordPerKind(prov)
    /\ VehicleIsOwn(prov, vehicle) /\ JobIsLicensed

\* Whoever leaves the road without a word (a crash before its row is deleted, a ping
\* that was on its way when it was suspended or revoked) is off the map in the end
\* (revokeProvider, suspendProvider, updateProviderLocation, sweepStalePresence; as long
\* as there are fewer stale rows than the sweep takes at a time).
Ghost(i) == i \in DOMAIN row /\ ~MayShare(i)
GhostsFade == \A i \in Plates \cup 0..MaxCalls : Ghost(i) ~> ~Ghost(i)
=============================================================================
