---------------------------- MODULE ForgeUiProofs ----------------------------
(***************************************************************************)
(* The Forge page, for any number of voices, designs, takes and requests   *)
(* under way at a time: the anvil cools, takes and requests are of what is *)
(* on display, and a forged voice stays there.                             *)
(*                                                                         *)
(* What each step does to the page goes through Set, so that the lemma     *)
(* Painted says once what a repaint keeps; what it does to the requests    *)
(* goes through one of five changes of `flight`, each with a lemma.        *)
(***************************************************************************)
EXTENDS ForgeUi, FiniteSetTheorems, TLAPS

(* A store with its fields; a request with its.                            *)
IsStore(s) ==
    /\ s = [voices |-> s.voices, door |-> s.door, focused |-> s.focused,
            bench |-> s.bench, forging |-> s.forging, candidates |-> s.candidates]
    /\ s.forging \in BOOLEAN /\ s.bench \in BOOLEAN

IsFlight(x) ==
    /\ x = [kind |-> x.kind, stage |-> x.stage, name |-> x.name, card |-> x.card,
            about |-> x.about, ok |-> x.ok, voices |-> x.voices, over |-> x.over]
    /\ x.ok \in BOOLEAN /\ x.over \in BOOLEAN

AreFlights(fl) ==
    /\ fl = [f \in Flights |-> fl[f]]
    /\ \A f \in Flights : IsFlight(fl[f])

(* The part of RequestsAreMeant that is about requests.                    *)
FlightsAreMeant ==
    \A f \in Flights :
        flight[f].stage = "asked" =>
          /\ flight[f].kind = "change" => flight[f].name = flight[f].card
          /\ flight[f].kind = "pick"   => flight[f].about = flight[f].card

(* An audition is of the editor on display and of where its slider was     *)
(* released, and an open chip of the card in focus.                        *)
EditorInv ==
    /\ IsStore(store)
    /\ \A s \in sockets :
         Bench /\ s = [voice |-> store.focused, sent |-> Overrides(slider.released)]
    /\ slider = [shown |-> slider.shown, released |-> slider.released]
    /\ slider.shown \in Nat /\ slider.released \in Nat
    /\ chip # Nobody => chip = store.focused

(* The context is that of the design on the sheet.                         *)
ContextInv ==
    /\ store.candidates # 0 => ctx = store.candidates
    /\ designs \in Nat

(* Loads that overlap know it; the voice a load is for is registered; and  *)
(* one that overlaps with none brings all that has to be on display.       *)
Forged(x) == x.kind \in {"clone", "pick"}

OverlapInv ==
    \A f, g \in Flights :
        f # g /\ Loading(flight[f]) /\ Loading(flight[g]) => flight[f].over

ForgedInv ==
    \A f \in Flights :
        Forged(flight[f]) /\ (Loading(flight[f]) \/ (flight[f].stage = "served" /\ flight[f].ok))
            => flight[f].name \in registry

FetchedInv ==
    \A f \in Flights :
        flight[f].stage = "fetched" /\ flight[f].ok /\ ~flight[f].over =>
            /\ shown \subseteq flight[f].voices
            /\ Forged(flight[f]) => flight[f].name \in flight[f].voices

LoadInv == OverlapInv /\ ForgedInv /\ FetchedInv /\ shown \subseteq registry

PageInv ==
    /\ EditorInv /\ AreFlights(flight) /\ ContextInv /\ LoadInv
    /\ AnvilCools /\ FlightsAreMeant /\ NewVoicesAreShown

(* The stores and the requests the handlers make have their fields.        *)
LEMMA FocusWith ==
    ASSUME NEW s, IsStore(s), NEW n
    PROVE  LET t == [s EXCEPT !.focused = n] IN
             /\ IsStore(t) /\ t.voices = s.voices /\ t.candidates = s.candidates
             /\ t.forging = s.forging
BY DEF IsStore

LEMMA AnvilWith ==
    ASSUME NEW s, IsStore(s), NEW b \in BOOLEAN
    PROVE  LET t == [s EXCEPT !.forging = b] IN
             /\ IsStore(t) /\ t.voices = s.voices /\ t.candidates = s.candidates
             /\ t.forging = b
BY DEF IsStore

LEMMA BenchWith ==
    ASSUME NEW s, IsStore(s), NEW b \in BOOLEAN
    PROVE  LET t == [s EXCEPT !.bench = b] IN
             /\ IsStore(t) /\ t.voices = s.voices /\ t.candidates = s.candidates
             /\ t.forging = s.forging
BY DEF IsStore

LEMMA CandidatesWith ==
    ASSUME NEW s, IsStore(s), NEW c
    PROVE  LET t == [s EXCEPT !.candidates = c] IN
             IsStore(t) /\ t.voices = s.voices /\ t.candidates = c /\ t.forging = s.forging
BY DEF IsStore

LEMMA VoicesWith ==
    ASSUME NEW s, IsStore(s), NEW v
    PROVE  LET t == [s EXCEPT !.voices = v] IN
             IsStore(t) /\ t.voices = v /\ t.candidates = s.candidates /\ t.forging = s.forging
BY DEF IsStore

LEMMA DoorWith ==
    ASSUME NEW s, IsStore(s), NEW d
    PROVE  LET t == [s EXCEPT !.door = d] IN
             /\ IsStore(t) /\ t.voices = s.voices /\ t.candidates = s.candidates
             /\ t.forging = s.forging
BY DEF IsStore

LEMMA FreeIs == IsFlight(Free) /\ Free.stage = "free" /\ ~Free.ok /\ ~Free.over
BY DEF IsFlight, Free

LEMMA KindWith ==
    ASSUME NEW x, IsFlight(x), NEW v
    PROVE  LET y == [x EXCEPT !.kind = v] IN
             IsFlight(y) /\ y.kind = v /\ y.stage = x.stage
BY DEF IsFlight

LEMMA StageWith ==
    ASSUME NEW x, IsFlight(x), NEW v
    PROVE  LET y == [x EXCEPT !.stage = v] IN
             /\ IsFlight(y) /\ y.stage = v /\ y.kind = x.kind /\ y.name = x.name
             /\ y.over = x.over
BY DEF IsFlight

LEMMA NameWith ==
    ASSUME NEW x, IsFlight(x), NEW v
    PROVE  LET y == [x EXCEPT !.name = v] IN
             IsFlight(y) /\ y.kind = x.kind /\ y.stage = x.stage /\ y.name = v
BY DEF IsFlight

LEMMA OkWith ==
    ASSUME NEW x, IsFlight(x), NEW v \in BOOLEAN
    PROVE  LET y == [x EXCEPT !.ok = v] IN
             /\ IsFlight(y) /\ y.kind = x.kind /\ y.stage = x.stage /\ y.name = x.name
             /\ y.ok = v /\ y.over = x.over
BY DEF IsFlight

LEMMA CardWith ==
    ASSUME NEW x, IsFlight(x), NEW v
    PROVE  LET y == [x EXCEPT !.card = v] IN
             /\ IsFlight(y) /\ y.kind = x.kind /\ y.stage = x.stage /\ y.name = x.name
             /\ y.ok = x.ok /\ y.card = v
BY DEF IsFlight

LEMMA AboutWith ==
    ASSUME NEW x, IsFlight(x), NEW v
    PROVE  LET y == [x EXCEPT !.about = v] IN
             /\ IsFlight(y) /\ y.kind = x.kind /\ y.stage = x.stage /\ y.name = x.name
             /\ y.ok = x.ok /\ y.card = x.card /\ y.about = v
BY DEF IsFlight

LEMMA ListWith ==
    ASSUME NEW x, IsFlight(x), NEW v
    PROVE  LET y == [x EXCEPT !.voices = v] IN
             /\ IsFlight(y) /\ y.kind = x.kind /\ y.stage = x.stage /\ y.name = x.name
             /\ y.ok = x.ok /\ y.over = x.over /\ y.voices = v
BY DEF IsFlight

LEMMA Requested ==
    ASSUME NEW kind
    PROVE  IsFlight(Flight(kind)) /\ Flight(kind).kind = kind /\ Flight(kind).stage = "asked"
<1> DEFINE x == [Free EXCEPT !.kind = kind]
<1>1. IsFlight(x) /\ x.kind = kind
  BY FreeIs, KindWith
<1>2. Flight(kind) = [x EXCEPT !.stage = "asked"]
  BY DEF Flight
<1> HIDE DEF x
<1> QED BY <1>1, <1>2, StageWith

-----------------------------------------------------------------------------
(* A repaint keeps what the new store says, but for the anvil, which it    *)
(* cools when it takes an audition away.                                   *)
LEMMA Painted ==
    ASSUME EditorInv, NEW new, IsStore(new), NEW fresh \in BOOLEAN, Set(new, fresh)
    PROVE  /\ EditorInv'
           /\ store'.voices = new.voices /\ store'.candidates = new.candidates
           /\ store'.forging => new.forging
           /\ store'.forging /\ sockets # {} => sockets' # {}
           /\ heard' \in {heard, Silence}
<1>1. CASE Repaints(new, fresh)
  <2>1. /\ store' = TornDown(new) /\ sockets' = {} /\ heard' = Silence /\ chip' = Nobody
        /\ slider' = FreshSlider(store')
    BY <1>1 DEF Set
  <2>4. /\ slider' = [shown |-> slider'.shown, released |-> slider'.released]
        /\ slider'.shown \in Nat /\ slider'.released \in Nat
    BY <2>1, KnobsAssumption DEF FreshSlider, Default
  <2>2. CASE sockets # {}
    <3>1. store' = [new EXCEPT !.forging = FALSE]
      BY <2>1, <2>2 DEF TornDown
    <3>2. IsStore(store') /\ store'.voices = new.voices /\ store'.candidates = new.candidates
          /\ store'.forging = FALSE
      BY <3>1 DEF IsStore
    <3> QED BY <2>1, <2>4, <3>2 DEF EditorInv
  <2>3. CASE sockets = {}
    <3>1. store' = new
      BY <2>1, <2>3 DEF TornDown
    <3> QED BY <2>1, <2>3, <2>4, <3>1 DEF EditorInv
  <2> QED BY <2>2, <2>3
<1>2. CASE ~Repaints(new, fresh)
  <2>1. /\ store' = new /\ UNCHANGED <<sockets, slider, heard>>
        /\ chip' = Nobody \/ chip' = chip
    BY <1>2 DEF Set
  <2>2. /\ new.voices = store.voices /\ new.bench = store.bench
        /\ new.focused = store.focused /\ new.candidates = store.candidates
    BY <1>2 DEF Repaints, Observed
  <2>3. Bench' <=> Bench
    BY <2>1, <2>2 DEF Bench
  <2>4. \A s \in sockets' :
          Bench' /\ s = [voice |-> store'.focused, sent |-> Overrides(slider'.released)]
    BY <2>1, <2>2, <2>3 DEF EditorInv
  <2>5. chip' # Nobody => chip' = store'.focused
    BY <2>1, <2>2 DEF EditorInv
  <2>6. EditorInv'
    BY <2>1, <2>4, <2>5 DEF EditorInv
  <2> QED BY <2>1, <2>6
<1> QED BY <1>1, <1>2

(* The anvil of a step that takes no request away, and heats it for none.  *)
LEMMA StaysWarm ==
    ASSUME AnvilCools,
           store'.forging => store.forging,
           store'.forging /\ sockets # {} => sockets' # {},
           \A f \in Flights : WillCool(f) => WillCool(f)'
    PROVE  AnvilCools'
BY DEF AnvilCools

LEMMA Cooled ==
    ASSUME ~store'.forging
    PROVE  AnvilCools'
BY DEF AnvilCools

-----------------------------------------------------------------------------
(* No request changes.                                                     *)
LEMMA SameFlights ==
    ASSUME PageInv, UNCHANGED <<ctx, flight, designs, registry, shown>>,
           EditorInv', store'.candidates \in {store.candidates, 0}, store'.voices = store.voices,
           AnvilCools'
    PROVE  PageInv'
<1>1. ContextInv'
  BY DEF PageInv, ContextInv
<1>2. LoadInv'
  BY DEF PageInv, LoadInv, OverlapInv, ForgedInv, FetchedInv, Loading, Forged
<1>3. FlightsAreMeant' /\ NewVoicesAreShown'
  BY DEF PageInv, FlightsAreMeant, NewVoicesAreShown
<1> QED BY <1>1, <1>2, <1>3 DEF PageInv

(* What the user does on the page without a request.                       *)
LEMMA ShellStep ==
    ASSUME PageInv, NEW v,
           Density \/ Focus(v) \/ Serve(v) \/ OpenChip(v) \/ CloseChip
    PROVE  PageInv' /\ heard' \in {heard, Silence}
<1>1. UNCHANGED <<ctx, flight, designs, registry, shown>>
  BY DEF Density, Focus, Serve, OpenChip, CloseChip
<1>2. \A f \in Flights : WillCool(f) => WillCool(f)'
  BY <1>1 DEF WillCool, Loading
<1>3. ASSUME NEW new, IsStore(new), Set(new, FALSE), new.candidates = store.candidates,
             new.voices = store.voices, new.forging = store.forging
      PROVE  PageInv' /\ heard' \in {heard, Silence}
  <2>1. /\ EditorInv' /\ store'.voices = new.voices /\ store'.candidates = new.candidates
        /\ store'.forging => new.forging
        /\ store'.forging /\ sockets # {} => sockets' # {}
        /\ heard' \in {heard, Silence}
    BY <1>3, Painted DEF PageInv
  <2>2. AnvilCools'
    BY <1>2, <1>3, <2>1, StaysWarm DEF PageInv
  <2> QED BY <1>1, <1>3, <2>1, <2>2, SameFlights
<1>4. IsStore(store)
  BY DEF PageInv, EditorInv
<1>5. ASSUME UNCHANGED <<store, sheet, slider, sockets, heard>>, chip' \in {Nobody, store.focused}
      PROVE  PageInv' /\ heard' \in {heard, Silence}
  <2>1. EditorInv'
    BY <1>5 DEF PageInv, EditorInv, Bench
  <2>2. AnvilCools'
    BY <1>2, <1>5, StaysWarm DEF PageInv
  <2> QED BY <1>1, <1>5, <2>1, <2>2, SameFlights
<1>6. CASE Density
  <2> DEFINE new == [store EXCEPT !.bench = ~@]
  <2>1. /\ IsStore(new) /\ new.candidates = store.candidates
        /\ new.voices = store.voices /\ new.forging = store.forging
    <3> DEFINE b == ~store.bench
    <3>1. b \in BOOLEAN
      OBVIOUS
    <3>2. new = [store EXCEPT !.bench = b]
      OBVIOUS
    <3> HIDE DEF b, new
    <3> QED BY <1>4, <3>1, <3>2 DEF IsStore
  <2> QED BY <1>3, <1>6, <2>1 DEF Density
<1>7. CASE Focus(v) \/ (OpenChip(v) /\ store.focused # v)
  <2> DEFINE new == [store EXCEPT !.focused = v]
  <2>1. /\ IsStore(new) /\ new.candidates = store.candidates
        /\ new.voices = store.voices /\ new.forging = store.forging
    BY <1>4 DEF IsStore
  <2> QED BY <1>3, <1>7, <2>1 DEF Focus, OpenChip
<1>8. CASE Serve(v)
  <2> DEFINE new == [store EXCEPT !.focused = v, !.bench = TRUE]
  <2>1. /\ IsStore(new) /\ new.candidates = store.candidates
        /\ new.voices = store.voices /\ new.forging = store.forging
    <3> DEFINE mid == [store EXCEPT !.focused = v]
    <3>1. /\ IsStore(mid) /\ mid.candidates = store.candidates
          /\ mid.voices = store.voices /\ mid.forging = store.forging
      BY <1>4, FocusWith
    <3>2. new = [mid EXCEPT !.bench = TRUE]
      OBVIOUS
    <3> HIDE DEF mid, new
    <3> QED BY <3>1, <3>2, BenchWith
  <2> QED BY <1>3, <1>8, <2>1 DEF Serve
<1>9. CASE CloseChip \/ (OpenChip(v) /\ store.focused = v)
  BY <1>5, <1>9 DEF CloseChip, OpenChip
<1> QED BY <1>6, <1>7, <1>8, <1>9

(* The contact sheet.                                                      *)
LEMMA SheetStep ==
    ASSUME PageInv, NEW new, Cull(new)
    PROVE  PageInv' /\ heard' = heard
<1>1. /\ UNCHANGED <<store, slider, sockets, heard, chip>>
      /\ UNCHANGED <<ctx, flight, designs, registry, shown>>
  BY DEF Cull
<1>2. EditorInv' /\ AnvilCools'
  BY <1>1 DEF PageInv, EditorInv, Bench, AnvilCools, WillCool, Loading
<1> QED BY <1>1, <1>2, SameFlights

(* The editor: a slider is dragged, and released; an audition ends.        *)
LEMMA DragStep ==
    ASSUME PageInv, NEW k \in Knobs, Drag(k)
    PROVE  PageInv' /\ heard' = heard
<1>1. /\ slider' = [slider EXCEPT !.shown = k]
      /\ UNCHANGED <<store, sockets, heard, chip>>
      /\ UNCHANGED <<ctx, flight, designs, registry, shown>>
  BY DEF Drag
<1>2. k \in Nat /\ slider = [shown |-> slider.shown, released |-> slider.released]
  BY KnobsAssumption DEF PageInv, EditorInv
<1>3. slider' = [shown |-> k, released |-> slider.released]
  BY <1>1, <1>2
<1>4. EditorInv'
  BY <1>1, <1>2, <1>3 DEF PageInv, EditorInv, Bench
<1>5. AnvilCools'
  BY <1>1 DEF PageInv, AnvilCools, WillCool, Loading
<1> QED BY <1>1, <1>4, <1>5, SameFlights

LEMMA ReleaseStep ==
    ASSUME PageInv, Release
    PROVE  PageInv' /\ heard' = heard
<1>1. /\ Bench /\ slider' = [slider EXCEPT !.released = slider.shown]
      /\ sockets' = {[voice |-> store.focused, sent |-> Overrides(slider.shown)]}
      /\ store' = [store EXCEPT !.forging = TRUE]
      /\ chip' \in {chip, Nobody}
      /\ heard' = heard /\ UNCHANGED <<ctx, flight, designs, registry, shown>>
  BY DEF Release
<1>2. /\ IsStore(store') /\ store'.voices = store.voices /\ store'.candidates = store.candidates
      /\ store'.focused = store.focused /\ store'.bench = store.bench
  BY <1>1 DEF PageInv, EditorInv, IsStore
<1>3. Bench'
  BY <1>1, <1>2 DEF Bench
<1>4. slider' = [shown |-> slider.shown, released |-> slider.shown] /\ slider.shown \in Nat
  BY <1>1 DEF PageInv, EditorInv
<1>5. EditorInv'
  BY <1>1, <1>2, <1>3, <1>4 DEF PageInv, EditorInv
<1>6. AnvilCools'
  BY <1>1 DEF AnvilCools
<1> QED BY <1>1, <1>2, <1>5, <1>6, SameFlights

(* What TakeIsOfTheEditor says of a step.                                  *)
HeardIsOfTheEditor ==
    /\ Bench /\ heard'.voice = store.focused
    /\ slider.released # Default \/ Stored[store.focused] = Default =>
         heard'.knob = slider.released

LEMMA SettleStep ==
    ASSUME PageInv, NEW s, Settle(s)
    PROVE  PageInv' /\ (heard' # heard => HeardIsOfTheEditor)
<1>1. /\ s \in sockets /\ sockets' = sockets \ {s} /\ heard' \in {heard, Take(s)}
      /\ store' = [store EXCEPT !.forging = FALSE] /\ chip' \in {chip, Nobody}
      /\ slider' = slider /\ UNCHANGED <<ctx, flight, designs, registry, shown>>
  BY DEF Settle
<1>2. /\ IsStore(store') /\ store'.voices = store.voices /\ store'.candidates = store.candidates
      /\ store'.focused = store.focused /\ store'.bench = store.bench /\ ~store'.forging
  BY <1>1 DEF PageInv, EditorInv, IsStore
<1>3. Bench' <=> Bench
  BY <1>2 DEF Bench
<1>4. EditorInv'
  BY <1>1, <1>2, <1>3 DEF PageInv, EditorInv
<1>5. PageInv'
  BY <1>1, <1>2, <1>4, Cooled, SameFlights
<1>6. /\ Bench /\ slider.released \in Nat
      /\ s = [voice |-> store.focused, sent |-> Overrides(slider.released)]
  BY <1>1 DEF PageInv, EditorInv
<1>7. HeardIsOfTheEditor \/ heard' = heard
  BY <1>1, <1>6 DEF HeardIsOfTheEditor, Take, Merged, Overrides, Default, Omitted
<1> QED BY <1>5, <1>7

-----------------------------------------------------------------------------
(* A request goes out.                                                     *)
LEMMA SendStep ==
    ASSUME PageInv, NEW f \in Flights, NEW request, NEW new, Send(f, request, new),
           IsFlight(request), request.stage = "asked",
           IsStore(new), new.voices = store.voices, new.candidates = store.candidates,
           request.kind = "change" => request.name = request.card,
           request.kind = "pick" => request.about = request.card,
           ctx' = ctx, designs' \in Nat, UNCHANGED <<registry, shown>>
    PROVE  PageInv' /\ heard' \in {heard, Silence}
<1>1. flight' = [flight EXCEPT ![f] = request] /\ Set(new, FALSE)
  BY DEF Send
<1>2. /\ EditorInv' /\ store'.voices = new.voices /\ store'.candidates = new.candidates
      /\ heard' \in {heard, Silence}
  BY <1>1, Painted DEF PageInv
<1>3. flight'[f] = request /\ \A g \in Flights \ {f} : flight'[g] = flight[g]
  BY <1>1 DEF PageInv, AreFlights
<1>4. AreFlights(flight')
  BY <1>1 DEF PageInv, AreFlights
<1>5. ContextInv'
  BY <1>2 DEF PageInv, ContextInv
<1>6. LoadInv'
  <2>1. \A g \in Flights : Loading(flight'[g]) => g # f
    BY <1>3 DEF Loading
  <2>2. OverlapInv'
    BY <1>3, <2>1 DEF PageInv, LoadInv, OverlapInv, Loading
  <2>3. ForgedInv'
    BY <1>3 DEF PageInv, LoadInv, ForgedInv, Loading, Forged
  <2>4. FetchedInv'
    BY <1>3 DEF PageInv, LoadInv, FetchedInv, Forged
  <2> QED BY <2>2, <2>3, <2>4 DEF PageInv, LoadInv
<1>7. AnvilCools'
  BY <1>3 DEF AnvilCools, WillCool
<1>8. FlightsAreMeant'
  BY <1>3 DEF PageInv, FlightsAreMeant
<1>9. NewVoicesAreShown'
  BY <1>2 DEF PageInv, NewVoicesAreShown
<1> QED BY <1>2, <1>4, <1>5, <1>6, <1>7, <1>8, <1>9 DEF PageInv

LEMMA AskStep ==
    ASSUME PageInv, NEW f \in Flights,
           CommitChip(f) \/ Run(f) \/ Clone(f) \/ Design(f) \/ Keep(f)
    PROVE  PageInv' /\ heard' \in {heard, Silence}
<1>1. IsStore(store)
  BY DEF PageInv, EditorInv
<1> DEFINE Warm(new) == IsStore(new) /\ new.voices = store.voices /\ new.candidates = store.candidates
<1>2. Warm([store EXCEPT !.forging = TRUE])
  BY <1>1, AnvilWith
<1>3. CASE CommitChip(f)
  <2> DEFINE request == [Flight("change") EXCEPT !.name = store.focused, !.card = chip]
  <2>1. /\ IsFlight(request) /\ request.stage = "asked" /\ request.kind = "change"
        /\ request.name = store.focused /\ request.card = chip
    <3> DEFINE x == [Flight("change") EXCEPT !.name = store.focused]
    <3>1. IsFlight(x) /\ x.stage = "asked" /\ x.kind = "change" /\ x.name = store.focused
      BY Requested, NameWith
    <3>2. request = [x EXCEPT !.card = chip]
      OBVIOUS
    <3> HIDE DEF x, request
    <3> QED BY <3>1, <3>2, CardWith
  <2>2. chip = store.focused
    BY <1>3 DEF CommitChip, PageInv, EditorInv
  <2>3. /\ Send(f, request, [store EXCEPT !.forging = TRUE])
        /\ UNCHANGED <<ctx, designs, registry, shown>>
    BY <1>3 DEF CommitChip
  <2> HIDE DEF request
  <2> QED BY <1>2, <2>1, <2>2, <2>3, SendStep DEF PageInv, ContextInv
<1>4. CASE Run(f)
  <2> DEFINE request == Flight("run")
  <2>1. IsFlight(request) /\ request.stage = "asked" /\ request.kind = "run"
    BY Requested DEF IsFlight
  <2>2. /\ Send(f, request, [store EXCEPT !.forging = TRUE])
        /\ UNCHANGED <<ctx, designs, registry, shown>>
    BY <1>4 DEF Run
  <2> HIDE DEF request
  <2> QED BY <1>2, <2>1, <2>2, SendStep DEF PageInv, ContextInv
<1>5. CASE Clone(f)
  <2>1. PICK n \in Names :
          Send(f, [Flight("clone") EXCEPT !.name = n],
               [store EXCEPT !.focused = n, !.forging = TRUE])
    BY <1>5 DEF Clone
  <2> DEFINE request == [Flight("clone") EXCEPT !.name = n]
             new     == [store EXCEPT !.focused = n, !.forging = TRUE]
  <2>2. IsFlight(request) /\ request.stage = "asked" /\ request.kind = "clone"
    BY Requested, NameWith
  <2>3. Warm(new)
    <3> DEFINE mid == [store EXCEPT !.focused = n]
    <3>1. IsStore(mid) /\ mid.candidates = store.candidates /\ mid.voices = store.voices
      BY <1>1, FocusWith
    <3>2. new = [mid EXCEPT !.forging = TRUE]
      OBVIOUS
    <3> HIDE DEF mid, new
    <3> QED BY <3>1, <3>2, AnvilWith
  <2>4. Send(f, request, new) /\ UNCHANGED <<ctx, designs, registry, shown>>
    BY <1>5, <2>1 DEF Clone
  <2> HIDE DEF request, new
  <2> QED BY <2>2, <2>3, <2>4, SendStep DEF PageInv, ContextInv
<1>6. CASE Design(f)
  <2> DEFINE request == [Flight("design") EXCEPT !.about = designs']
  <2>1. IsFlight(request) /\ request.stage = "asked" /\ request.kind = "design"
    BY Requested, AboutWith
  <2>2. /\ Send(f, request, [store EXCEPT !.forging = TRUE])
        /\ designs' = designs + 1 /\ UNCHANGED <<ctx, registry, shown>>
    BY <1>6 DEF Design
  <2>3. designs' \in Nat
    BY <2>2 DEF PageInv, ContextInv
  <2> HIDE DEF request
  <2> QED BY <1>2, <2>1, <2>2, <2>3, SendStep
<1>7. CASE Keep(f)
  <2> DEFINE request == [Flight("pick") EXCEPT !.name = UniqueVoiceId,
                                               !.card = store.candidates, !.about = ctx]
  <2>1. /\ IsFlight(request) /\ request.stage = "asked" /\ request.kind = "pick"
        /\ request.about = ctx /\ request.card = store.candidates
    <3> DEFINE x == [Flight("pick") EXCEPT !.name = UniqueVoiceId]
               y == [x EXCEPT !.card = store.candidates]
    <3>1. IsFlight(x) /\ x.stage = "asked" /\ x.kind = "pick"
      BY Requested, NameWith
    <3>2. request = [y EXCEPT !.about = ctx]
      OBVIOUS
    <3> HIDE DEF x
    <3>3. IsFlight(y) /\ y.stage = "asked" /\ y.kind = "pick" /\ y.card = store.candidates
      BY <3>1, CardWith
    <3> HIDE DEF y, request
    <3> QED BY <3>2, <3>3, AboutWith
  <2>2. ctx = store.candidates
    BY <1>7 DEF Keep, Sheet, PageInv, ContextInv
  <2>3. /\ Send(f, request, [store EXCEPT !.forging = TRUE])
        /\ UNCHANGED <<ctx, designs, registry, shown>>
    BY <1>7 DEF Keep
  <2> HIDE DEF request
  <2> QED BY <1>2, <2>1, <2>2, <2>3, SendStep DEF PageInv, ContextInv
<1> QED BY <1>3, <1>4, <1>5, <1>6, <1>7

(* The server registers the voice of a clone or of a take.                 *)
LEMMA HandleStep ==
    ASSUME PageInv, NEW f \in Flights, Handle(f)
    PROVE  PageInv' /\ heard' = heard
<1>1. PICK ok \in BOOLEAN :
         /\ flight' = [flight EXCEPT ![f].stage = "served", ![f].ok = ok,
                                     ![f].card = Nobody, ![f].about = 0]
         /\ registry' = IF ok THEN registry \cup {flight[f].name} ELSE registry
  BY DEF Handle
<1>2. /\ flight[f].kind \in {"clone", "pick"} /\ flight[f].stage = "asked"
      /\ UNCHANGED <<store, sheet, slider, sockets, heard, chip>>
      /\ UNCHANGED <<ctx, designs, shown>>
  BY DEF Handle, page
<1>3. AreFlights(flight)
  BY DEF PageInv
<1>4. /\ IsFlight(flight'[f])
      /\ flight'[f].stage = "served" /\ flight'[f].ok = ok
      /\ flight'[f].kind = flight[f].kind /\ flight'[f].name = flight[f].name
      /\ \A g \in Flights \ {f} : flight'[g] = flight[g]
  <2> DEFINE y == [flight[f] EXCEPT !.stage = "served", !.ok = ok, !.card = Nobody, !.about = 0]
  <2>1. flight' = [flight EXCEPT ![f] = y]
    BY <1>1, <1>3 DEF AreFlights
  <2>2. IsFlight(flight[f])
    BY <1>3 DEF AreFlights
  <2>3. /\ IsFlight(y) /\ y.stage = "served" /\ y.ok = ok
        /\ y.kind = flight[f].kind /\ y.name = flight[f].name
    <3> DEFINE x1 == [flight[f] EXCEPT !.stage = "served"]
               x2 == [x1 EXCEPT !.ok = ok]
               x3 == [x2 EXCEPT !.card = Nobody]
    <3>1. y = [x3 EXCEPT !.about = 0]
      OBVIOUS
    <3>2. IsFlight(x1) /\ x1.stage = "served" /\ x1.kind = flight[f].kind /\ x1.name = flight[f].name
      BY <2>2, StageWith
    <3> HIDE DEF x1
    <3>3. /\ IsFlight(x2) /\ x2.stage = "served" /\ x2.ok = ok
          /\ x2.kind = flight[f].kind /\ x2.name = flight[f].name
      BY <3>2, OkWith
    <3> HIDE DEF x2
    <3>4. /\ IsFlight(x3) /\ x3.stage = "served" /\ x3.ok = ok
          /\ x3.kind = flight[f].kind /\ x3.name = flight[f].name
      BY <3>3, CardWith
    <3> HIDE DEF x3, y
    <3> QED BY <3>1, <3>4, AboutWith
  <2> HIDE DEF y
  <2> QED BY <1>3, <2>1, <2>3 DEF AreFlights
<1>5. AreFlights(flight')
  BY <1>1, <1>3, <1>4 DEF AreFlights
<1>6. EditorInv' /\ ContextInv' /\ NewVoicesAreShown'
  BY <1>2 DEF PageInv, EditorInv, Bench, ContextInv, NewVoicesAreShown
<1>7. AnvilCools'
  <2>1. \A g \in Flights : WillCool(g) => WillCool(g)'
    BY <1>4 DEF WillCool, Loading
  <2> QED BY <1>2, <2>1, StaysWarm DEF PageInv
<1>8. FlightsAreMeant'
  BY <1>4 DEF PageInv, FlightsAreMeant
<1>9. LoadInv'
  <2>1. registry \subseteq registry' /\ (ok => flight[f].name \in registry')
    BY <1>1
  <2>2. OverlapInv'
    BY <1>4 DEF PageInv, LoadInv, OverlapInv, Loading
  <2>3. ForgedInv'
    BY <1>4, <2>1 DEF PageInv, LoadInv, ForgedInv, Loading, Forged
  <2>4. FetchedInv'
    BY <1>2, <1>4 DEF PageInv, LoadInv, FetchedInv, Forged
  <2> QED BY <1>2, <2>1, <2>2, <2>3, <2>4 DEF PageInv, LoadInv
<1> QED BY <1>2, <1>5, <1>6, <1>7, <1>8, <1>9 DEF PageInv

-----------------------------------------------------------------------------
(* A request is over without a load: the anvil is cool.                    *)
LEMMA GoneStep ==
    ASSUME PageInv, NEW f \in Flights, Gone(f), UNCHANGED <<registry, shown>>
    PROVE  AreFlights(flight') /\ LoadInv' /\ FlightsAreMeant'
<1>1. flight' = [flight EXCEPT ![f] = Free]
  BY DEF Gone
<1>2. IsFlight(Free) /\ Free.stage = "free"
  BY DEF Free, IsFlight
<1>3. flight'[f] = Free /\ \A g \in Flights \ {f} : flight'[g] = flight[g]
  BY <1>1 DEF PageInv, AreFlights
<1>4. AreFlights(flight')
  BY <1>1, <1>2 DEF PageInv, AreFlights
<1>5. ~Loading(flight'[f]) /\ flight'[f].stage = "free"
  BY <1>2, <1>3 DEF Loading
<1>6. LoadInv'
  <2>1. OverlapInv'
    BY <1>3, <1>5 DEF PageInv, LoadInv, OverlapInv
  <2>2. ForgedInv'
    BY <1>3, <1>5 DEF PageInv, LoadInv, ForgedInv
  <2>3. FetchedInv'
    BY <1>3, <1>5 DEF PageInv, LoadInv, FetchedInv
  <2> QED BY <2>1, <2>2, <2>3 DEF PageInv, LoadInv
<1>7. FlightsAreMeant'
  BY <1>3, <1>5 DEF PageInv, FlightsAreMeant
<1> QED BY <1>4, <1>6, <1>7

LEMMA ToldIs ==
    ASSUME NEW x, IsFlight(x), NEW b \in BOOLEAN
    PROVE  LET y == [x EXCEPT !.over = b] IN
             /\ IsFlight(y) /\ y.stage = x.stage /\ y.kind = x.kind /\ y.name = x.name
             /\ y.card = x.card /\ y.about = x.about /\ y.ok = x.ok
             /\ y.voices = x.voices /\ y.over = b
BY DEF IsFlight

(* A request goes on as a load.                                            *)
LEMMA LoadStep ==
    ASSUME PageInv, NEW f \in Flights, NEW fl, AreFlights(fl),
           fl[f].kind = flight[f].kind,
           Forged(fl[f]) => fl[f].name \in registry,
           \A g \in Flights \ {f} : fl[g] = flight[g],
           ~Loading(flight[f]), ~Loading(fl[f]), flight' = WithLoad(f, fl),
           UNCHANGED <<registry, shown>>
    PROVE  /\ AreFlights(flight') /\ LoadInv' /\ FlightsAreMeant'
           /\ flight'[f].kind = flight[f].kind /\ flight'[f].stage = "loading"
           /\ \A g \in Flights \ {f} : WillCool(g) => WillCool(g)'
<1> DEFINE others == {g \in Flights : g # f /\ Loading(fl[g])}
           load   == [Free EXCEPT !.kind = fl[f].kind, !.stage = "loading",
                                  !.name = fl[f].name, !.over = others # {}]
           Told(g) == [fl[g] EXCEPT !.over = TRUE]
<1>1. flight' = [g \in Flights |-> IF g = f THEN load ELSE IF g \in others THEN Told(g) ELSE fl[g]]
  BY DEF WithLoad
<1>2. /\ IsFlight(load) /\ load.stage = "loading" /\ load.kind = fl[f].kind
      /\ load.name = fl[f].name /\ (load.over <=> others # {})
  <2> DEFINE o == others # {}
  <2>1. o \in BOOLEAN
    OBVIOUS
  <2>2. load = [Free EXCEPT !.kind = fl[f].kind, !.stage = "loading", !.name = fl[f].name, !.over = o]
    OBVIOUS
  <2> HIDE DEF o, load, others
  <2>3. IsFlight(load) /\ load.stage = "loading" /\ load.kind = fl[f].kind
        /\ load.name = fl[f].name /\ load.over = o
    BY <2>1, <2>2 DEF Free, IsFlight
  <2> QED BY <2>3 DEF o
<1>3. \A g \in Flights :
        /\ IsFlight(Told(g)) /\ Told(g).stage = fl[g].stage /\ Told(g).kind = fl[g].kind
        /\ Told(g).name = fl[g].name /\ Told(g).card = fl[g].card
        /\ Told(g).about = fl[g].about /\ Told(g).ok = fl[g].ok
        /\ Told(g).voices = fl[g].voices /\ Told(g).over = TRUE
  <2> TAKE g \in Flights
  <2> DEFINE x == fl[g]
             y == [x EXCEPT !.over = TRUE]
  <2>1. IsFlight(x)
    BY DEF AreFlights
  <2> HIDE DEF x
  <2>2. /\ IsFlight(y) /\ y.stage = x.stage /\ y.kind = x.kind /\ y.name = x.name
        /\ y.card = x.card /\ y.about = x.about /\ y.ok = x.ok
        /\ y.voices = x.voices /\ y.over = TRUE
    BY <2>1, ToldIs
  <2> QED BY <2>2 DEF x
<1> HIDE DEF load, Told
<1>4. flight'[f] = load
  BY <1>1
<1>5. \A g \in Flights \ {f} :
        /\ IsFlight(flight'[g]) /\ flight'[g].stage = flight[g].stage
        /\ flight'[g].kind = flight[g].kind /\ flight'[g].name = flight[g].name
        /\ flight'[g].card = flight[g].card /\ flight'[g].about = flight[g].about
        /\ flight'[g].ok = flight[g].ok /\ flight'[g].voices = flight[g].voices
        /\ Loading(flight[g]) => flight'[g].over
        /\ ~Loading(flight[g]) => flight'[g].over = flight[g].over
  <2> TAKE g \in Flights \ {f}
  <2>1. fl[g] = flight[g] /\ (g \in others <=> Loading(flight[g])) /\ IsFlight(fl[g])
    BY DEF AreFlights
  <2>2. flight'[g] = IF g \in others THEN Told(g) ELSE fl[g]
    BY <1>1
  <2>3. CASE g \in others
    BY <1>3, <2>1, <2>2, <2>3
  <2>4. CASE g \notin others
    BY <2>1, <2>2, <2>4
  <2> QED BY <2>3, <2>4
<1>6. AreFlights(flight')
  BY <1>1, <1>2, <1>4, <1>5 DEF AreFlights
<1>7. \A g \in Flights \ {f} : Loading(flight'[g]) <=> Loading(flight[g])
  BY <1>5 DEF Loading
<1>8. LoadInv'
  <2>1. OverlapInv'
    <3> SUFFICES ASSUME NEW g \in Flights, NEW h \in Flights, g # h,
                        Loading(flight'[g]), Loading(flight'[h])
                 PROVE  flight'[g].over
      BY DEF OverlapInv
    <3>1. CASE g = f
      <4>1. h \in others
        BY <1>7, <3>1
      <4> QED BY <1>2, <1>4, <3>1, <4>1
    <3>2. CASE g # f
      BY <1>5, <1>7, <3>2
    <3> QED BY <3>1, <3>2
  <2>2. ForgedInv'
    BY <1>2, <1>4, <1>5, <1>7 DEF PageInv, LoadInv, ForgedInv, Forged
  <2>3. FetchedInv'
    <3> SUFFICES ASSUME NEW g \in Flights, flight'[g].stage = "fetched", flight'[g].ok,
                        ~flight'[g].over
                 PROVE  /\ shown \subseteq flight'[g].voices
                        /\ Forged(flight'[g]) => flight'[g].name \in flight'[g].voices
      BY DEF FetchedInv
    <3>1. g # f
      BY <1>2, <1>4
    <3>2. Loading(flight[g])
      BY <1>5, <3>1 DEF Loading
    <3> QED BY <1>5, <3>1, <3>2
  <2> QED BY <2>1, <2>2, <2>3 DEF PageInv, LoadInv
<1>9. FlightsAreMeant'
  BY <1>2, <1>4, <1>5 DEF PageInv, FlightsAreMeant
<1>10. \A g \in Flights \ {f} : WillCool(g) => WillCool(g)'
  BY <1>5, <1>7 DEF WillCool
<1> QED BY <1>2, <1>4, <1>6, <1>8, <1>9, <1>10

-----------------------------------------------------------------------------
(* Answers.                                                                *)

LEMMA CoolIs ==
    ASSUME PageInv
    PROVE  /\ IsStore(Cool) /\ ~Cool.forging
           /\ Cool.voices = store.voices /\ Cool.candidates = store.candidates
<1>1. IsStore(store)
  BY DEF PageInv, EditorInv
<1> QED BY <1>1, AnvilWith DEF Cool

(* An answer after which the anvil is cool.                                *)
LEMMA CoolStep ==
    ASSUME PageInv, NEW new, NEW fresh \in BOOLEAN, Set(new, fresh), IsStore(new),
           ~new.forging, new.voices = store.voices,
           new.candidates # 0 => ctx' = new.candidates,
           AreFlights(flight'), LoadInv', FlightsAreMeant', UNCHANGED <<designs, shown>>
    PROVE  PageInv' /\ heard' \in {heard, Silence}
<1>1. /\ EditorInv' /\ store'.voices = new.voices /\ store'.candidates = new.candidates
      /\ store'.forging => new.forging
      /\ heard' \in {heard, Silence}
  BY Painted DEF PageInv
<1>2. ContextInv'
  BY <1>1 DEF PageInv, ContextInv
<1>3. AnvilCools'
  BY <1>1, Cooled
<1>4. NewVoicesAreShown'
  BY <1>1 DEF PageInv, NewVoicesAreShown
<1> QED BY <1>1, <1>2, <1>3, <1>4 DEF PageInv

LEMMA RefusedStep ==
    ASSUME PageInv, NEW f \in Flights, Refused(f) \/ RunAnswered(f)
    PROVE  PageInv' /\ heard' \in {heard, Silence}
<1>1. /\ Gone(f) /\ Set(Cool, FALSE)
      /\ UNCHANGED <<ctx, designs, registry, shown>>
  BY DEF Refused, RunAnswered
<1>2. store.candidates # 0 => ctx = store.candidates
  BY DEF PageInv, ContextInv
<1> QED BY <1>1, <1>2, CoolIs, GoneStep, CoolStep

LEMMA DesignedStep ==
    ASSUME PageInv, NEW f \in Flights, Designed(f)
    PROVE  PageInv' /\ heard' \in {heard, Silence}
<1>1. PICK set \in {0, flight[f].about} : Set([Cool EXCEPT !.candidates = set], TRUE)
  BY DEF Designed
<1>2. /\ Gone(f) /\ ctx' = flight[f].about /\ UNCHANGED <<designs, registry, shown>>
  BY DEF Designed
<1> DEFINE new == [Cool EXCEPT !.candidates = set]
<1>3. IsStore(new) /\ ~new.forging /\ new.voices = store.voices /\ new.candidates = set
  BY CoolIs, CandidatesWith
<1>4. Set(new, TRUE)
  BY <1>1
<1> HIDE DEF new
<1>5. new.candidates # 0 => ctx' = new.candidates
  BY <1>2, <1>3
<1> QED BY <1>2, <1>3, <1>4, <1>5, GoneStep, CoolStep

(* Answers after which the page loads what the server has.                 *)
LEMMA ReloadStep ==
    ASSUME PageInv, NEW f \in Flights, NoDesign(f) \/ Picked(f)
    PROVE  PageInv' /\ heard' \in {heard, Silence}
<1>1. /\ flight' = WithLoad(f, flight) /\ ~Loading(flight[f])
      /\ UNCHANGED <<designs, registry, shown>>
  BY DEF NoDesign, Picked, Loading
<1>2. AreFlights(flight)
  BY DEF PageInv
<1>3. Forged(flight[f]) => flight[f].name \in registry
  <2>1. Forged(flight[f]) => flight[f].stage = "served" /\ flight[f].ok
    BY DEF NoDesign, Picked, Forged
  <2> QED BY <2>1 DEF PageInv, LoadInv, ForgedInv
<1>4. AreFlights(flight') /\ LoadInv' /\ FlightsAreMeant'
  BY <1>1, <1>2, <1>3, LoadStep
<1>5. CASE NoDesign(f)
  <2>1. Set(Cool, FALSE) /\ ctx' = ctx
    BY <1>5 DEF NoDesign
  <2>2. store.candidates # 0 => ctx = store.candidates
    BY DEF PageInv, ContextInv
  <2> QED BY <1>1, <1>4, <2>1, <2>2, CoolIs, CoolStep
<1>6. CASE Picked(f)
  <2> DEFINE new == [Cool EXCEPT !.candidates = 0]
  <2>1. IsStore(new) /\ ~new.forging /\ new.voices = store.voices /\ new.candidates = 0
    BY CoolIs, CandidatesWith
  <2>2. Set(new, TRUE)
    BY <1>6 DEF Picked
  <2> HIDE DEF new
  <2> QED BY <1>1, <1>4, <2>1, <2>2, CoolStep
<1> QED BY <1>5, <1>6

(* Answers of which the page shows nothing before the load is through.     *)
LEMMA UnseenStep ==
    ASSUME PageInv, NEW f \in Flights, Changed(f) \/ Cloned(f)
    PROVE  PageInv' /\ heard' = heard
<1> DEFINE fl == IF flight[f].kind = "change" THEN [flight EXCEPT ![f].name = Nobody] ELSE flight
<1>1. /\ flight[f].kind \in {"change", "clone"} /\ ~Loading(flight[f])
      /\ flight[f].kind = "clone" => flight[f].stage = "served" /\ flight[f].ok
      /\ flight' = WithLoad(f, fl)
      /\ UNCHANGED <<store, sheet, slider, sockets, heard, chip>>
      /\ UNCHANGED <<ctx, designs, registry, shown>>
  BY DEF Changed, Cloned, Loading, page
<1>2. AreFlights(flight) /\ IsFlight(flight[f])
  BY DEF PageInv, AreFlights
<1>3. /\ AreFlights(fl) /\ fl[f].kind = flight[f].kind /\ ~Loading(fl[f])
      /\ flight[f].kind = "clone" => fl[f] = flight[f]
      /\ \A g \in Flights \ {f} : fl[g] = flight[g]
  <2>1. CASE flight[f].kind = "change"
    <3> DEFINE x == [flight[f] EXCEPT !.name = Nobody]
    <3>1. IsFlight(x) /\ x.kind = flight[f].kind /\ x.stage = flight[f].stage
      BY <1>2, NameWith
    <3>2. fl = [flight EXCEPT ![f] = x]
      BY <2>1
    <3> HIDE DEF x, fl
    <3> QED BY <1>1, <1>2, <2>1, <3>1, <3>2 DEF AreFlights, Loading
  <2>2. CASE flight[f].kind # "change"
    BY <1>1, <1>2, <2>2
  <2> QED BY <2>1, <2>2
<1> HIDE DEF fl
<1>4. Forged(fl[f]) => fl[f].name \in registry
  <2>1. Forged(fl[f]) => flight[f].kind = "clone"
    BY <1>1, <1>3 DEF Forged
  <2>2. flight[f].kind = "clone" => flight[f].name \in registry
    BY <1>1 DEF PageInv, LoadInv, ForgedInv, Forged
  <2> QED BY <1>3, <2>1, <2>2
<1>5. /\ AreFlights(flight') /\ LoadInv' /\ FlightsAreMeant'
      /\ flight'[f].kind = flight[f].kind /\ flight'[f].stage = "loading"
      /\ \A g \in Flights \ {f} : WillCool(g) => WillCool(g)'
  BY <1>1, <1>3, <1>4, LoadStep
<1>6. AnvilCools'
  <2>1. WillCool(f)'
    BY <1>1, <1>5 DEF WillCool, Loading
  <2> QED BY <2>1 DEF AnvilCools
<1>7. EditorInv' /\ ContextInv' /\ NewVoicesAreShown'
  BY <1>1 DEF PageInv, EditorInv, Bench, ContextInv, NewVoicesAreShown
<1> QED BY <1>1, <1>5, <1>6, <1>7 DEF PageInv

(* The server answers a load; what it has is all that has to be shown.     *)
LEMMA FetchStep ==
    ASSUME PageInv, NEW f \in Flights, Fetch(f) \/ FetchFails(f)
    PROVE  PageInv' /\ heard' = heard
<1>1. PICK ok \in BOOLEAN, v \in {registry, {}} :
        /\ flight' = [flight EXCEPT ![f].stage = "fetched", ![f].ok = ok, ![f].voices = v]
        /\ ok => v = registry
  BY DEF Fetch, FetchFails
<1>2. /\ flight[f].stage = "loading"
      /\ UNCHANGED <<store, sheet, slider, sockets, heard, chip>>
      /\ UNCHANGED <<ctx, designs, registry, shown>>
  BY DEF Fetch, FetchFails, page
<1>3. AreFlights(flight) /\ IsFlight(flight[f])
  BY DEF PageInv, AreFlights
<1>4. /\ IsFlight(flight'[f]) /\ flight'[f].stage = "fetched" /\ flight'[f].ok = ok
      /\ flight'[f].voices = v /\ flight'[f].over = flight[f].over
      /\ flight'[f].kind = flight[f].kind /\ flight'[f].name = flight[f].name
      /\ \A g \in Flights \ {f} : flight'[g] = flight[g]
  <2> DEFINE x1 == [flight[f] EXCEPT !.stage = "fetched"]
             x2 == [x1 EXCEPT !.ok = ok]
             x3 == [x2 EXCEPT !.voices = v]
  <2>1. flight' = [flight EXCEPT ![f] = x3]
    BY <1>1, <1>3 DEF AreFlights
  <2>2. /\ IsFlight(x1) /\ x1.stage = "fetched" /\ x1.kind = flight[f].kind
        /\ x1.name = flight[f].name /\ x1.over = flight[f].over
    BY <1>3, StageWith
  <2> HIDE DEF x1
  <2>3. /\ IsFlight(x2) /\ x2.stage = "fetched" /\ x2.kind = flight[f].kind /\ x2.ok = ok
        /\ x2.name = flight[f].name /\ x2.over = flight[f].over
    BY <2>2, OkWith
  <2> HIDE DEF x2
  <2>4. /\ IsFlight(x3) /\ x3.stage = "fetched" /\ x3.kind = flight[f].kind /\ x3.ok = ok
        /\ x3.name = flight[f].name /\ x3.over = flight[f].over /\ x3.voices = v
    BY <2>3, ListWith
  <2> HIDE DEF x3
  <2> QED BY <1>3, <2>1, <2>4 DEF AreFlights
<1>5. AreFlights(flight')
  BY <1>1, <1>3, <1>4 DEF AreFlights
<1>6. \A g \in Flights : Loading(flight'[g]) <=> Loading(flight[g])
  BY <1>2, <1>4 DEF Loading
<1>7. LoadInv'
  <2>1. OverlapInv'
    BY <1>4, <1>6 DEF PageInv, LoadInv, OverlapInv
  <2>2. ForgedInv'
    BY <1>2, <1>4, <1>6 DEF PageInv, LoadInv, ForgedInv, Forged
  <2>3. Forged(flight[f]) => flight[f].name \in registry
    BY <1>2 DEF PageInv, LoadInv, ForgedInv, Loading
  <2>4. FetchedInv'
    BY <1>1, <1>2, <1>4, <2>3 DEF PageInv, LoadInv, FetchedInv, Forged
  <2> QED BY <1>2, <2>1, <2>2, <2>4 DEF PageInv, LoadInv
<1>8. FlightsAreMeant'
  BY <1>4 DEF PageInv, FlightsAreMeant
<1>9. AnvilCools'
  <2>1. \A g \in Flights : WillCool(g) => WillCool(g)'
    BY <1>2, <1>4, <1>6 DEF WillCool
  <2> QED BY <1>2, <2>1, StaysWarm DEF PageInv
<1>10. EditorInv' /\ ContextInv' /\ NewVoicesAreShown'
  BY <1>2 DEF PageInv, EditorInv, Bench, ContextInv, NewVoicesAreShown
<1> QED BY <1>2, <1>5, <1>7, <1>8, <1>9, <1>10 DEF PageInv

(* The load is through: the page shows what the server had.                *)
LEMMA LoadedStep ==
    ASSUME PageInv, NEW f \in Flights, Loaded(f)
    PROVE  PageInv' /\ heard' \in {heard, Silence}
<1>1. /\ flight[f].stage = "fetched" /\ Loading(flight[f]) /\ Gone(f)
      /\ shown' = IF flight[f].over \/ ~flight[f].ok THEN {}
                  ELSE IF Forged(flight[f]) THEN shown \cup {flight[f].name} ELSE shown
      /\ UNCHANGED <<ctx, designs, registry>>
  BY DEF Loaded, Loading, Forged
<1>2. PICK new : /\ Set(new, TRUE) /\ IsStore(new) /\ new.voices = flight[f].voices
                 /\ new.candidates = store.candidates
                 /\ new.forging => store.forging /\ flight[f].kind \notin {"clone", "change"}
  <2> DEFINE n == IF Forged(flight[f]) THEN flight[f].name ELSE store.focused
             b == IF flight[f].kind \in {"clone", "change"} THEN FALSE ELSE store.forging
  <2>1. PICK door \in Doors :
          Set([store EXCEPT !.voices = flight[f].voices, !.door = door, !.focused = n,
                            !.forging = b], TRUE)
    BY DEF Loaded, Forged
  <2>2. IsStore(store) /\ b \in BOOLEAN
    BY DEF PageInv, EditorInv, IsStore
  <2>3. b => store.forging /\ flight[f].kind \notin {"clone", "change"}
    OBVIOUS
  <2> HIDE DEF n, b
  <2> DEFINE s1 == [store EXCEPT !.voices = flight[f].voices]
             s2 == [s1 EXCEPT !.door = door]
             s3 == [s2 EXCEPT !.focused = n]
             s4 == [s3 EXCEPT !.forging = b]
  <2>4. Set(s4, TRUE)
    BY <2>1
  <2>5. IsStore(s1) /\ s1.voices = flight[f].voices /\ s1.candidates = store.candidates
    BY <2>2, VoicesWith
  <2> HIDE DEF s1
  <2>6. IsStore(s2) /\ s2.voices = flight[f].voices /\ s2.candidates = store.candidates
    BY <2>5, DoorWith
  <2> HIDE DEF s2
  <2>7. IsStore(s3) /\ s3.voices = flight[f].voices /\ s3.candidates = store.candidates
    BY <2>6, FocusWith
  <2> HIDE DEF s3
  <2>8. /\ IsStore(s4) /\ s4.voices = flight[f].voices /\ s4.candidates = store.candidates
        /\ s4.forging = b
    BY <2>2, <2>7, AnvilWith
  <2> HIDE DEF s4
  <2> QED BY <2>3, <2>4, <2>8
<1>3. /\ EditorInv' /\ store'.voices = new.voices /\ store'.candidates = new.candidates
      /\ store'.forging => new.forging
      /\ store'.forging /\ sockets # {} => sockets' # {}
      /\ heard' \in {heard, Silence}
  BY <1>2, Painted DEF PageInv
<1>4. /\ AreFlights(flight') /\ flight'[f].stage = "free" /\ ~Loading(flight'[f])
      /\ \A g \in Flights \ {f} : flight'[g] = flight[g]
  <2>1. flight' = [flight EXCEPT ![f] = Free]
    BY <1>1 DEF Gone
  <2>2. flight'[f] = Free /\ \A g \in Flights \ {f} : flight'[g] = flight[g]
    BY <2>1 DEF PageInv, AreFlights
  <2>3. AreFlights(flight')
    BY <2>1, FreeIs DEF PageInv, AreFlights
  <2> QED BY <2>2, <2>3, FreeIs DEF Loading
<1>5. ContextInv'
  BY <1>1, <1>2, <1>3 DEF PageInv, ContextInv
<1>6. AnvilCools'
  <2>1. ~WillCool(f) \/ ~new.forging
    BY <1>1, <1>2 DEF WillCool
  <2>2. \A g \in Flights \ {f} : WillCool(g) => WillCool(g)'
    BY <1>4 DEF WillCool, Loading
  <2>3. CASE store'.forging
    <3>1. store.forging /\ ~WillCool(f)
      BY <1>2, <1>3, <2>1, <2>3
    <3>2. sockets # {} \/ \E g \in Flights \ {f} : WillCool(g)
      BY <3>1 DEF PageInv, AnvilCools
    <3> QED BY <1>3, <2>2, <2>3, <3>2 DEF AnvilCools
  <2> QED BY <2>3, Cooled
<1>7. FlightsAreMeant'
  BY <1>4 DEF PageInv, FlightsAreMeant
<1>8. CASE flight[f].over \/ ~flight[f].ok
  <2>1. shown' = {}
    BY <1>1, <1>8
  <2>2. OverlapInv' /\ ForgedInv'
    BY <1>1, <1>4 DEF PageInv, LoadInv, OverlapInv, ForgedInv
  <2>3. FetchedInv'
    <3> SUFFICES ASSUME NEW g \in Flights, flight'[g].stage = "fetched", flight'[g].ok,
                        ~flight'[g].over
                 PROVE  /\ shown' \subseteq flight'[g].voices
                        /\ Forged(flight'[g]) => flight'[g].name \in flight'[g].voices
      BY DEF FetchedInv
    <3>1. g # f /\ flight'[g] = flight[g]
      BY <1>4
    <3> QED BY <2>1, <3>1 DEF PageInv, LoadInv, FetchedInv
  <2>4. LoadInv' /\ NewVoicesAreShown'
    BY <2>1, <2>2, <2>3 DEF LoadInv, NewVoicesAreShown
  <2> QED BY <1>3, <1>4, <1>5, <1>6, <1>7, <2>4 DEF PageInv
<1>9. CASE ~flight[f].over /\ flight[f].ok
  <2>1. /\ shown \subseteq flight[f].voices
        /\ Forged(flight[f]) => flight[f].name \in flight[f].voices
    BY <1>1, <1>9 DEF PageInv, LoadInv, FetchedInv
  <2>2. \A g \in Flights \ {f} : ~Loading(flight[g])
    BY <1>1, <1>9 DEF PageInv, LoadInv, OverlapInv
  <2>3. \A g \in Flights : ~Loading(flight'[g])
    BY <1>4, <2>2
  <2>4. OverlapInv'
    BY <2>3 DEF OverlapInv
  <2>5. FetchedInv'
    BY <2>3 DEF FetchedInv, Loading
  <2>6. ForgedInv'
    BY <1>1, <1>4 DEF PageInv, LoadInv, ForgedInv
  <2>7. shown' \subseteq registry'
    <3>1. Forged(flight[f]) => flight[f].name \in registry
      BY <1>1 DEF PageInv, LoadInv, ForgedInv
    <3> QED BY <1>1, <1>9, <3>1 DEF PageInv, LoadInv
  <2>8. NewVoicesAreShown'
    BY <1>1, <1>2, <1>3, <1>9, <2>1 DEF NewVoicesAreShown
  <2>9. LoadInv'
    BY <2>4, <2>5, <2>6, <2>7 DEF LoadInv
  <2> QED BY <1>3, <1>4, <1>5, <1>6, <1>7, <2>8, <2>9 DEF PageInv
<1> QED BY <1>8, <1>9 DEF PageInv, AreFlights, IsFlight

-----------------------------------------------------------------------------
LEMMA PageInit == Init => PageInv
<1> SUFFICES ASSUME Init PROVE PageInv
  OBVIOUS
<1>1. PICK bench \in BOOLEAN :
         store = [voices |-> {}, door |-> "unforgeable", focused |-> Nobody,
                  bench |-> bench, forging |-> FALSE, candidates |-> 0]
  BY DEF Init
<1>2. /\ IsStore(store) /\ ~store.forging /\ store.candidates = 0
  BY <1>1 DEF IsStore
<1>3. sockets = {} /\ chip = Nobody /\ designs = 0 /\ shown = {}
  BY DEF Init
<1> DEFINE first == [Free EXCEPT !.kind = "load", !.stage = "loading"]
<1>4. IsFlight(first) /\ first.kind = "load" /\ first.stage = "loading"
  <2> DEFINE x == [Free EXCEPT !.kind = "load"]
  <2>1. IsFlight(x) /\ x.kind = "load"
    BY FreeIs, KindWith
  <2>2. first = [x EXCEPT !.stage = "loading"]
    OBVIOUS
  <2> HIDE DEF x, first
  <2> QED BY <2>1, <2>2, StageWith
<1>5. flight = [f \in Flights |-> IF f = 1 THEN first ELSE Free]
  BY DEF Init
<1> HIDE DEF first
<1>6. AreFlights(flight)
  BY <1>4, <1>5, FreeIs DEF AreFlights
<1>7. \A f \in Flights : /\ Loading(flight[f]) => f = 1
                         /\ flight[f].stage \in {"loading", "free"}
                         /\ flight[f].stage = "loading" => flight[f].kind = "load"
  BY <1>4, <1>5, FreeIs DEF Loading
<1>8. LoadInv
  <2>1. ForgedInv
    BY <1>7 DEF ForgedInv, Forged, Loading
  <2> QED BY <1>3, <1>7, <2>1 DEF LoadInv, OverlapInv, FetchedInv
<1>9. FlightsAreMeant /\ AnvilCools /\ NewVoicesAreShown
  BY <1>2, <1>3, <1>7 DEF FlightsAreMeant, AnvilCools, NewVoicesAreShown
<1>10. /\ slider = [shown |-> slider.shown, released |-> slider.released]
       /\ slider.shown \in Nat /\ slider.released \in Nat
  BY KnobsAssumption DEF Init, FreshSlider, Default
<1>11. EditorInv /\ ContextInv
  BY <1>2, <1>3, <1>10 DEF EditorInv, ContextInv
<1> QED BY <1>6, <1>8, <1>9, <1>11 DEF PageInv

(* A step keeps the invariant; a take that begins to play is of the editor.*)
LEMMA PageStep ==
    ASSUME PageInv, [Next]_vars
    PROVE  /\ PageInv'
           /\ heard' \notin {heard, Silence} => HeardIsOfTheEditor
<1>1. CASE User
  <2>1. CASE \/ Density \/ CloseChip
             \/ \E v \in Names : Focus(v) \/ Serve(v) \/ OpenChip(v)
    BY <2>1, ShellStep
  <2>2. CASE \/ Reject \/ \E delta \in {1, -1} : Move(delta)
             \/ \E i \in 0 .. Cardinality(Takes) - 1 : Click(i)
             \/ \E t \in Takes : Undo(t)
    BY <2>2, SheetStep DEF Reject, Move, Click, Undo
  <2>3. CASE Release \/ \E k \in Knobs : Drag(k)
    BY <2>3, ReleaseStep, DragStep
  <2>4. CASE \E f \in Flights : CommitChip(f) \/ Run(f) \/ Clone(f) \/ Design(f) \/ Keep(f)
    BY <2>4, AskStep
  <2> QED BY <1>1, <2>1, <2>2, <2>3, <2>4 DEF User
<1>2. CASE Network
  <2>1. CASE \E s \in sockets : Settle(s)
    BY <2>1, SettleStep
  <2>2. CASE \E f \in Flights :
               \/ Handle(f) \/ Refused(f) \/ NoDesign(f) \/ Designed(f) \/ RunAnswered(f)
               \/ Changed(f) \/ Cloned(f) \/ Picked(f) \/ Fetch(f) \/ FetchFails(f) \/ Loaded(f)
    BY <2>2, HandleStep, RefusedStep, DesignedStep, ReloadStep, UnseenStep, FetchStep, LoadedStep
  <2> QED BY <1>2, <2>1, <2>2 DEF Network
<1>3. CASE UNCHANGED vars
  <2>1. /\ UNCHANGED <<store, sheet, slider, sockets, heard, chip>>
        /\ UNCHANGED <<ctx, flight, designs, registry, shown>>
    BY <1>3 DEF vars, page
  <2>2. EditorInv' /\ AnvilCools'
    BY <2>1 DEF PageInv, EditorInv, Bench, AnvilCools, WillCool, Loading
  <2> QED BY <2>1, <2>2, SameFlights
<1> QED BY <1>1, <1>2, <1>3 DEF Next

(* The inductive invariant of the page.                                    *)
THEOREM PageInvariant == Spec => []PageInv
<1>1. PageInv /\ [Next]_vars => PageInv'
  BY PageStep
<1> QED BY <1>1, PageInit, PTL DEF Spec

(* The anvil is hot only while something is under way that will cool it.   *)
(* (_setForging and the handlers of forge-app.js, the editor's             *)
(* disconnectedCallback.)                                                  *)
THEOREM AnvilAlwaysCools == Spec => []AnvilCools
BY PageInvariant, PTL DEF PageInv

(* The contact sheet: while a take is live, one is in focus; and when the  *)
(* last one was rejected, the first to be put back will be.                *)
FocusInv ==
    /\ sheet = [focus |-> sheet.focus, rejected |-> sheet.rejected]
    /\ sheet.focus \in Nat
    /\ IF Live = {} THEN sheet.focus = 0 ELSE sheet.focus < Cardinality(Live)

LEMMA LiveIsFinite ==
    /\ IsFiniteSet(Live) /\ Cardinality(Live) \in Nat /\ (Live # {} => Cardinality(Live) > 0)
    /\ IsFiniteSet(Takes) /\ Cardinality(Takes) = MaxTakes
<1>1. IsFiniteSet(Takes) /\ Cardinality(Takes) = MaxTakes
  BY TakesAssumption, FS_Interval DEF Takes
<1>2. IsFiniteSet(Live)
  BY <1>1, FS_Subset DEF Live
<1> QED BY <1>1, <1>2, FS_CardinalityType, FS_EmptySet

(* A sheet that was just painted has its first take in focus.              *)
LEMMA NewSheetInv == sheet' = NewSheet => FocusInv'
<1> SUFFICES ASSUME sheet' = NewSheet PROVE FocusInv'
  OBVIOUS
<1>1. sheet' = [focus |-> 0, rejected |-> {}]
  BY DEF NewSheet
<1>2. sheet'.focus = 0 /\ sheet'.rejected = {}
  BY <1>1
<1>3. Live' = Takes
  BY <1>2 DEF Live
<1>4. 0 < Cardinality(Takes)
  BY LiveIsFinite, TakesAssumption
<1> QED BY <1>1, <1>2, <1>3, <1>4 DEF FocusInv

LEMMA FocusMoves ==
    ASSUME FocusInv, NEW i \in Nat, i < Cardinality(Live), sheet' = [sheet EXCEPT !.focus = i]
    PROVE  FocusInv'
<1>1. sheet' = [focus |-> i, rejected |-> sheet.rejected]
  BY DEF FocusInv
<1>2. sheet'.focus = i /\ sheet'.rejected = sheet.rejected
  BY <1>1
<1>3. Live' = Live /\ Live # {}
  BY <1>2, FS_EmptySet DEF Live
<1> QED BY <1>1, <1>2, <1>3 DEF FocusInv

(* A take is rejected: of those that are left the focus is on one.         *)
LEMMA RejectKeepsFocus ==
    ASSUME FocusInv, Reject
    PROVE  FocusInv'
<1> DEFINE x == LiveAt(sheet.focus)
           remaining == Cardinality(Live) - 1
           i == IF sheet.focus < remaining THEN sheet.focus
                ELSE IF remaining = 0 THEN 0 ELSE remaining - 1
<1>1. /\ Live # {}
      /\ sheet' = [rejected |-> sheet.rejected \cup {x}, focus |-> i]
  BY DEF Reject, Cull
<1> HIDE DEF x
<1>2. sheet'.focus = i /\ sheet'.rejected = sheet.rejected \cup {x}
  BY <1>1
<1>3. Live' = Live \ {x}
  BY <1>2 DEF Live
<1>4. remaining \in Nat
  BY <1>1, LiveIsFinite
<1>5. Cardinality(Live') \in Nat /\ Cardinality(Live') >= remaining
  <2>1. CASE x \in Live
    <3>1. IsFiniteSet(Live) /\ Cardinality(Live) \in Nat
      BY LiveIsFinite
    <3>2. Cardinality(Live \ {x}) = remaining
      BY <2>1, <3>1, FS_RemoveElement
    <3> QED BY <1>3, <1>4, <3>2
  <2>2. CASE x \notin Live
    <3>1. Live' = Live
      BY <1>3, <2>2
    <3>2. Cardinality(Live') = Cardinality(Live)
      BY <3>1
    <3>3. Cardinality(Live) \in Nat
      BY LiveIsFinite
    <3> QED BY <3>2, <3>3
  <2> QED BY <2>1, <2>2
<1>6. Live' # {} => Cardinality(Live') > 0
  BY <1>3, LiveIsFinite, FS_Subset, FS_EmptySet, FS_CardinalityType
<1>7. i \in Nat /\ (remaining > 0 => i < remaining) /\ (remaining = 0 => i = 0)
  <2>1. sheet.focus \in Nat
    BY DEF FocusInv
  <2> HIDE DEF remaining
  <2> QED BY <1>4, <2>1
<1>8. IF Live' = {} THEN i = 0 ELSE i < Cardinality(Live')
  <2>1. CASE Live' = {}
    <3>1. Cardinality(Live') = 0
      BY <2>1, FS_EmptySet
    <3> QED BY <1>4, <1>5, <1>7, <2>1, <3>1
  <2>2. CASE Live' # {}
    BY <1>4, <1>5, <1>6, <1>7, <2>2
  <2> QED BY <2>1, <2>2
<1>9. sheet' = [focus |-> sheet'.focus, rejected |-> sheet'.rejected]
  BY <1>1, <1>2
<1> QED BY <1>2, <1>7, <1>8, <1>9 DEF FocusInv

(* A take is put back: no fewer are live.                                  *)
LEMMA UndoKeepsFocus ==
    ASSUME FocusInv, NEW t \in Takes, Undo(t)
    PROVE  FocusInv'
<1>1. t \in sheet.rejected /\ sheet' = [sheet EXCEPT !.rejected = @ \ {t}]
  BY DEF Undo, Cull
<1>2. sheet' = [focus |-> sheet.focus, rejected |-> sheet.rejected \ {t}]
  BY <1>1 DEF FocusInv
<1>3. sheet'.focus = sheet.focus /\ sheet'.rejected = sheet.rejected \ {t}
  BY <1>2
<1>4. Live' = Live \cup {t} /\ t \notin Live
  BY <1>1, <1>3 DEF Live
<1>5. Cardinality(Live') = Cardinality(Live) + 1
  BY <1>4, LiveIsFinite, FS_AddElement
<1>6. sheet.focus < Cardinality(Live')
  <2>1. CASE Live = {}
    BY <1>5, <2>1, FS_EmptySet DEF FocusInv
  <2>2. CASE Live # {}
    BY <1>5, <2>2, LiveIsFinite DEF FocusInv
  <2> QED BY <2>1, <2>2
<1> QED BY <1>2, <1>3, <1>4, <1>6 DEF FocusInv

LEMMA MoveKeepsFocus ==
    ASSUME FocusInv, NEW delta \in {1, -1}, Move(delta)
    PROVE  FocusInv'
<1> DEFINE len == Cardinality(Live)
           i == (sheet.focus + delta + len) % len
<1>1. Live # {} /\ sheet' = [sheet EXCEPT !.focus = i]
  BY DEF Move, Cull
<1>2. len \in Nat /\ len > 0 /\ sheet.focus \in Nat
  BY <1>1, LiveIsFinite DEF FocusInv
<1>3. i \in Nat /\ i < len
  BY <1>2
<1> QED BY <1>1, <1>3, FocusMoves

(* Whatever else is done leaves the sheet or paints a new one.             *)
LEMMA SheetRepainted ==
    ASSUME NEW new, NEW fresh, Set(new, fresh)
    PROVE  sheet' = sheet \/ sheet' = NewSheet
BY DEF Set

LEMMA FocusStep == FocusInv /\ [Next]_vars => FocusInv'
<1> SUFFICES ASSUME FocusInv, [Next]_vars PROVE FocusInv'
  OBVIOUS
<1>1. ASSUME sheet' = sheet \/ sheet' = NewSheet PROVE FocusInv'
  <2>1. CASE sheet' = sheet
    BY <2>1 DEF FocusInv, Live
  <2> QED BY <1>1, <2>1, NewSheetInv
<1>2. CASE User
  <2>1. CASE \/ Density \/ CloseChip
             \/ \E v \in Names : Focus(v) \/ Serve(v) \/ OpenChip(v)
    BY <1>1, <2>1, SheetRepainted DEF Density, CloseChip, Focus, Serve, OpenChip
  <2>2. CASE Reject
    BY <2>2, RejectKeepsFocus
  <2>3. CASE \E delta \in {1, -1} : Move(delta)
    BY <2>3, MoveKeepsFocus
  <2>4. CASE \E i \in 0 .. Cardinality(Takes) - 1 : Click(i)
    <3>1. PICK i \in 0 .. Cardinality(Takes) - 1 : Click(i)
      BY <2>4
    <3>2. i \in Nat
      BY LiveIsFinite, TakesAssumption
    <3> QED BY <3>1, <3>2, FocusMoves DEF Click, Cull
  <2>5. CASE \E t \in Takes : Undo(t)
    BY <2>5, UndoKeepsFocus
  <2>6. CASE Release \/ \E k \in Knobs : Drag(k)
    BY <1>1, <2>6 DEF Release, Drag
  <2>7. CASE \E f \in Flights : CommitChip(f) \/ Run(f) \/ Clone(f) \/ Design(f) \/ Keep(f)
    BY <1>1, <2>7, SheetRepainted DEF CommitChip, Run, Clone, Design, Keep, Send
  <2> QED BY <1>2, <2>1, <2>2, <2>3, <2>4, <2>5, <2>6, <2>7 DEF User
<1>3. CASE Network
  <2>1. CASE \E s \in sockets : Settle(s)
    BY <1>1, <2>1 DEF Settle
  <2>2. CASE \E f \in Flights :
               Handle(f) \/ Changed(f) \/ Cloned(f) \/ Fetch(f) \/ FetchFails(f)
    BY <1>1, <2>2 DEF Handle, Changed, Cloned, Fetch, FetchFails, page
  <2>3. CASE \E f \in Flights :
               \/ Refused(f) \/ NoDesign(f) \/ Designed(f) \/ RunAnswered(f)
               \/ Picked(f) \/ Loaded(f)
    BY <1>1, <2>3, SheetRepainted DEF Refused, NoDesign, Designed, RunAnswered, Picked, Loaded
  <2> QED BY <1>3, <2>1, <2>2, <2>3 DEF Network
<1>4. CASE UNCHANGED vars
  BY <1>1, <1>4 DEF vars, page
<1> QED BY <1>2, <1>3, <1>4 DEF Next

LEMMA FocusInvariant == Spec => []FocusInv
<1>1. Init => FocusInv
  <2> SUFFICES ASSUME Init PROVE FocusInv
    OBVIOUS
  <2>1. sheet = [focus |-> 0, rejected |-> {}]
    BY DEF Init, NewSheet
  <2>2. Live = Takes
    BY <2>1 DEF Live
  <2>3. 0 < Cardinality(Takes)
    BY LiveIsFinite, TakesAssumption
  <2> QED BY <2>1, <2>2, <2>3 DEF FocusInv
<1> QED BY <1>1, FocusStep, PTL DEF Spec

(* A chip's change is of the card it is on, a take is kept with the        *)
(* description of its own design, and one is in focus while any is live.   *)
(* (_onBackendChange, _onPick and the contact sheet's _move and _reject.)  *)
THEOREM RequestsAreOfTheDisplay == Spec => []RequestsAreMeant
<1>1. PageInv /\ FocusInv => RequestsAreMeant
  <2> SUFFICES ASSUME PageInv, FocusInv PROVE RequestsAreMeant
    OBVIOUS
  <2>1. Live # {} => sheet.focus \in 0 .. Cardinality(Live) - 1
    BY LiveIsFinite DEF FocusInv
  <2> QED BY <2>1 DEF PageInv, FlightsAreMeant, RequestsAreMeant
<1> QED BY <1>1, PageInvariant, FocusInvariant, PTL

(* A forged voice stays on display while no load fails or overlaps.        *)
THEOREM ForgedVoicesStay == Spec => []NewVoicesAreShown
BY PageInvariant, PTL DEF PageInv

(* A take that begins to play is of the editor on display and of where its *)
(* slider was last released, unless that is the default of a voice stored  *)
(* with another setting.                                                   *)
THEOREM TakesAreOfTheEditor == Spec => TakeIsOfTheEditor
<1>1. PageInv /\ [Next]_vars =>
        [heard' \notin {heard, Silence} =>
           /\ Bench /\ heard'.voice = store.focused
           /\ slider.released # Default \/ Stored[store.focused] = Default =>
                heard'.knob = slider.released]_vars
  BY PageStep DEF HeardIsOfTheEditor
<1> QED BY <1>1, PageInvariant, PTL DEF Spec, TakeIsOfTheEditor
=============================================================================
