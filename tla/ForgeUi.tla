------------------------------ MODULE ForgeUi ------------------------------
(***************************************************************************)
(* The Forge page, static/forge/: the shared store, the shell that paints  *)
(* everything anew when a slice it observes changes, and the elements it   *)
(* paints: the hero, the cards with their backend chips, the contact sheet *)
(* of a design, the spec editor with its auditions and the serve console.  *)
(*                                                                         *)
(* JavaScript runs a handler up to its next await.  A request goes out,    *)
(* the server handles it, and the answer comes back or is lost; an open    *)
(* WebSocket audition is a socket.  Several may be under way, and the user *)
(* acts on whatever is on display meanwhile.                               *)
(*                                                                         *)
(* Abstraction.  Voices are numbered, "-2" being the second of a name.  A  *)
(* design is the number of its candidate set, 0 none.  One slider stands   *)
(* for those of the editor, and 0 for the default of its backend.  What a  *)
(* request only reads, and the one-shot bloom of a new card, are left out. *)
(***************************************************************************)
EXTENDS Integers, FiniteSets

CONSTANTS
    MaxNames,    \* voice ids there can be
    MaxDesigns,  \* bound on the designs, for TLC
    MaxFlights,  \* requests under way at a time, for TLC
    MaxTakes,    \* candidates of a design
    Knobs,       \* settings of a slider
    Stored,      \* the setting each voice is stored with, or the default
    Doors        \* the doors of the hero a load may find: more is open behind a later one

ASSUME NamesAssumption == MaxNames \in Nat \ {0}
ASSUME BoundsAssumption == MaxDesigns \in Nat /\ MaxFlights \in Nat \ {0}
ASSUME TakesAssumption == MaxTakes \in Nat \ {0}
ASSUME DoorsAssumption == Doors \subseteq {"unforgeable", "clone", "design"}

Names   == 1 .. MaxNames
Takes   == 1 .. MaxTakes
Nobody  == 0
Flights == 1 .. MaxFlights
Default == 0
Omitted == -1

ASSUME KnobsAssumption == Knobs \subseteq Nat /\ Stored \in [Names -> Knobs]

VARIABLES
    store,    \* the shared store
    ctx,      \* forge-app._auditionCtx: the design it describes, or 0
    sheet,    \* the contact sheet: the focused index and what is rejected
    slider,   \* the editor's slider: where it is shown, and was last released
    sockets,  \* the auditions under way
    heard,    \* what the editor's waveform plays
    chip,     \* the card whose backend chip is open, or Nobody
    flight,   \* the requests under way
    designs,  \* the designs so far
    registry, \* the voices the server has
    shown     \* voices that were reported forged and have to be on display

page == <<store, sheet, slider, sockets, heard, chip>>
vars == <<page, ctx, flight, designs, registry, shown>>

NewSheet == [focus |-> 0, rejected |-> {}]
Silence  == [voice |-> Nobody, knob |-> Default]

(* _knob: a slider is painted where the voice has it.                      *)
FreshSlider(s) == LET k == IF s.focused \in Names THEN Stored[s.focused] ELSE Default IN
                  [shown |-> k, released |-> k]

Free   == [kind |-> "free", stage |-> "free", name |-> Nobody, card |-> Nobody,
           about |-> 0, ok |-> FALSE, voices |-> {}, over |-> FALSE]
Flight(kind) == [Free EXCEPT !.kind = kind, !.stage = "asked"]

Loading(f) == f.stage \in {"loading", "fetched"}

Init ==
    /\ \E bench \in BOOLEAN :
         store = [voices |-> {}, door |-> "unforgeable", focused |-> Nobody,
                  bench |-> bench, forging |-> FALSE, candidates |-> 0]
    /\ ctx = 0
    /\ sheet = NewSheet /\ slider = FreshSlider(store) /\ sockets = {} /\ heard = Silence
    /\ chip = Nobody
    /\ flight = [f \in Flights |->
                   IF f = 1 THEN [Free EXCEPT !.kind = "load", !.stage = "loading"] ELSE Free]
    /\ designs = 0
    /\ registry \in SUBSET Names
    /\ shown = {}

-----------------------------------------------------------------------------
(* The store tells its subscribers, and they paint.                        *)

Observed(s) == <<s.voices, s.bench, s.focused, s.candidates>>

(* Faulty variant: the shell does not observe which voice is focused.      *)
SetUnfocused(new, fresh) ==
    LET shell == fresh \/ <<new.voices, new.bench, new.candidates>>
                            # <<store.voices, store.bench, store.candidates>> IN
    /\ store' = IF shell /\ sockets # {} THEN [new EXCEPT !.forging = FALSE] ELSE new
    /\ sheet' = IF shell THEN NewSheet ELSE sheet
    /\ slider' = IF shell THEN FreshSlider(store') ELSE slider
    /\ sockets' = IF shell THEN {} ELSE sockets
    /\ heard' = IF shell THEN Silence ELSE heard
    /\ chip' = IF shell \/ new.forging # store.forging THEN Nobody ELSE chip

(* Faulty variant: an editor that is taken off lets its audition go on.    *)
SetWithoutTeardown(new, fresh) ==
    LET shell == fresh \/ Observed(new) # Observed(store) IN
    /\ store' = new
    /\ sheet' = IF shell THEN NewSheet ELSE sheet
    /\ slider' = IF shell THEN FreshSlider(store') ELSE slider
    /\ sockets' = sockets
    /\ heard' = IF shell THEN Silence ELSE heard
    /\ chip' = IF shell \/ new.forging # store.forging THEN Nobody ELSE chip

(* An array that was just loaded is a new one even if it equals the old.   *)
Repaints(new, fresh) == fresh \/ Observed(new) # Observed(store)

(* The editor that goes aborts its audition and cools the anvil.           *)
TornDown(new) == IF sockets # {} THEN [new EXCEPT !.forging = FALSE] ELSE new

(* store.set.  The shell replaces every element: the editor's sliders are  *)
(* where the voice has them, its waveform is silent, and the new sheet,    *)
(* having received nothing yet, is given the candidates again.  The cards  *)
(* alone are painted anew when the anvil changes.                          *)
Set(new, fresh) ==
    LET shell == Repaints(new, fresh) IN
    /\ store' = IF shell THEN TornDown(new) ELSE new
    /\ sheet' = IF shell THEN NewSheet ELSE sheet
    /\ slider' = IF shell THEN FreshSlider(store') ELSE slider
    /\ sockets' = IF shell THEN {} ELSE sockets
    /\ heard' = IF shell THEN Silence ELSE heard
    /\ chip' = IF shell \/ new.forging # store.forging THEN Nobody ELSE chip

Sheet  == store.candidates # 0
Hero   == ~Sheet /\ store.voices = {}
Fleet  == ~Sheet /\ store.voices # {}
Bench  == store.bench /\ store.focused \in store.voices   \* editor and console
Hot(v) == store.forging /\ store.focused = v

(* A handler that sends a request, and what it changes first.              *)
Send(f, request, new) ==
    /\ \A g \in Flights : g < f => flight[g].stage # "free"
    /\ flight[f].stage = "free"
    /\ flight' = [flight EXCEPT ![f] = request]
    /\ Set(new, FALSE)

-----------------------------------------------------------------------------
(* The shell and the cards.                                                *)

Density ==
    /\ Set([store EXCEPT !.bench = ~@], FALSE)
    /\ UNCHANGED <<ctx, flight, designs, registry, shown>>

(* A click on the rail, or on a card.                                      *)
Focus(v) ==
    /\ v \in store.voices /\ (Fleet \/ store.bench)
    /\ Set([store EXCEPT !.focused = v], FALSE)
    /\ UNCHANGED <<ctx, flight, designs, registry, shown>>

(* forge-serve: the voice is focused and the bench revealed.               *)
Serve(v) ==
    /\ v \in store.voices /\ Fleet /\ ~Hot(v)
    /\ Set([store EXCEPT !.focused = v, !.bench = TRUE], FALSE)
    /\ UNCHANGED <<ctx, flight, designs, registry, shown>>

(* A click on a chip opens it and is a click on its card too.              *)
OpenChip(v) ==
    /\ v \in store.voices /\ Fleet /\ ~Hot(v)
    /\ IF store.focused = v
         THEN /\ chip' = v
              /\ UNCHANGED <<store, sheet, slider, sockets, heard>>
         ELSE Set([store EXCEPT !.focused = v], FALSE)
    /\ UNCHANGED <<ctx, flight, designs, registry, shown>>

(* Dismissed, or left at the backend it had.                               *)
CloseChip ==
    /\ chip # Nobody
    /\ chip' = Nobody
    /\ UNCHANGED <<store, sheet, slider, sockets, heard, ctx, flight, designs, registry, shown>>

(* forge-backend-change names no voice: the focused one is meant.          *)
CommitChip(f) ==
    /\ chip # Nobody
    /\ Send(f, [Flight("change") EXCEPT !.name = store.focused, !.card = chip],
            [store EXCEPT !.forging = TRUE])
    /\ UNCHANGED <<ctx, designs, registry, shown>>

(* The serve console's run.                                                *)
Run(f) ==
    /\ Bench
    /\ Send(f, Flight("run"), [store EXCEPT !.forging = TRUE])
    /\ UNCHANGED <<ctx, designs, registry, shown>>

-----------------------------------------------------------------------------
(* The hero.                                                               *)

Clone(f) ==
    /\ Hero /\ store.door # "unforgeable"
    /\ \E n \in Names :
         Send(f, [Flight("clone") EXCEPT !.name = n],
              [store EXCEPT !.focused = n, !.forging = TRUE])
    /\ UNCHANGED <<ctx, designs, registry, shown>>

Design(f) ==
    /\ Hero /\ store.door = "design" /\ designs < MaxDesigns
    /\ designs' = designs + 1
    /\ Send(f, [Flight("design") EXCEPT !.about = designs'], [store EXCEPT !.forging = TRUE])
    /\ UNCHANGED <<ctx, registry, shown>>

-----------------------------------------------------------------------------
(* The contact sheet.                                                      *)

Live == Takes \ sheet.rejected

(* live[i], counted from 0.                                                *)
LiveAt(i) == CHOOSE t \in Live : Cardinality({u \in Live : u < t}) = i

Cull(new) ==
    /\ sheet' = new
    /\ UNCHANGED <<store, slider, sockets, heard, chip, ctx, flight, designs, registry, shown>>

Move(delta) ==
    /\ Sheet /\ Live # {}
    /\ LET len == Cardinality(Live) IN
       Cull([sheet EXCEPT !.focus = (@ + delta + len) % len])

(* A click on a tile that is not focused.                                  *)
Click(i) ==
    /\ Sheet /\ i < Cardinality(Live) /\ i # sheet.focus
    /\ Cull([sheet EXCEPT !.focus = i])

(* The focus stays on a take that is live.                                 *)
Reject ==
    /\ Sheet /\ Live # {}
    /\ LET remaining == Cardinality(Live) - 1 IN
       Cull([rejected |-> sheet.rejected \cup {LiveAt(sheet.focus)},
             focus |-> IF sheet.focus < remaining THEN sheet.focus
                       ELSE IF remaining = 0 THEN 0 ELSE remaining - 1])

Undo(t) ==
    /\ Sheet /\ t \in sheet.rejected
    /\ Cull([sheet EXCEPT !.rejected = @ \ {t}])

(* _uniqueVoiceId, against the voices on display.                          *)
UniqueVoiceId ==
    IF Names \subseteq store.voices THEN 1
    ELSE CHOOSE n \in Names \ store.voices : \A m \in Names \ store.voices : n <= m

(* forge-pick of the focused take: the description is that of the last     *)
(* design answered.                                                        *)
Keep(f) ==
    /\ Sheet /\ Live # {}
    /\ Send(f, [Flight("pick") EXCEPT !.name = UniqueVoiceId, !.card = store.candidates,
                                      !.about = ctx],
            [store EXCEPT !.forging = TRUE])
    /\ UNCHANGED <<ctx, designs, registry, shown>>

-----------------------------------------------------------------------------
(* The spec editor.                                                        *)

(* oninput: a slider is dragged, and nothing else happens.                 *)
Drag(k) ==
    /\ Bench /\ k # slider.shown
    /\ slider' = [slider EXCEPT !.shown = k]
    /\ UNCHANGED <<store, sheet, sockets, heard, chip, ctx, flight, designs, registry, shown>>

(* _overrides: what is at the default does not ride along.                 *)
Overrides(k) == IF k = Default THEN Omitted ELSE k

(* _handle_ws_session: what came is merged over what is stored.            *)
Merged(v, sent) == IF sent = Omitted THEN Stored[v] ELSE sent

(* onchange, when a slider is released elsewhere than it was: the audition *)
(* under way makes room for a new one.                                     *)
Release ==
    /\ Bench /\ slider.shown # slider.released
    /\ slider' = [slider EXCEPT !.released = slider.shown]
    /\ sockets' = {[voice |-> store.focused, sent |-> Overrides(slider.shown)]}
    /\ store' = [store EXCEPT !.forging = TRUE]
    /\ chip' = IF store.forging THEN chip ELSE Nobody
    /\ UNCHANGED <<sheet, heard, ctx, flight, designs, registry, shown>>

Take(s) == [voice |-> s.voice, knob |-> Merged(s.voice, s.sent)]

(* Faulty variant: an audition that fails leaves the anvil hot.            *)
SettleHot(s) ==
    /\ s \in sockets
    /\ sockets' = sockets \ {s}
    /\ \/ /\ heard' = Take(s)
          /\ store' = [store EXCEPT !.forging = FALSE]
       \/ UNCHANGED <<heard, store>>
    /\ UNCHANGED <<chip, sheet, slider, ctx, flight, designs, registry, shown>>

(* The first binary frame is played; an error frame, the end without one,  *)
(* the end of the socket and twenty seconds are failures, and play         *)
(* nothing.                                                                *)
Settle(s) ==
    /\ s \in sockets
    /\ sockets' = sockets \ {s}
    /\ heard' \in {heard, Take(s)}
    /\ store' = [store EXCEPT !.forging = FALSE]
    /\ chip' = IF store.forging THEN Nobody ELSE chip
    /\ UNCHANGED <<sheet, slider, ctx, flight, designs, registry, shown>>

-----------------------------------------------------------------------------
(* Requests.                                                               *)

(* The server registers a voice, which it refuses if there is one of that  *)
(* id, and for other reasons.                                              *)
Handle(f) ==
    /\ flight[f].kind \in {"clone", "pick"} /\ flight[f].stage = "asked"
    /\ \E ok \in BOOLEAN :
         /\ ok => flight[f].name \notin registry
         /\ flight' = [flight EXCEPT ![f].stage = "served", ![f].ok = ok,
                                     ![f].card = Nobody, ![f].about = 0]
         /\ registry' = IF ok THEN registry \cup {flight[f].name} ELSE registry
    /\ UNCHANGED <<page, ctx, designs, shown>>

(* A load begins; it overlaps with any other that is under way.            *)
WithLoad(f, fl) ==
    LET others == {g \in Flights : g # f /\ Loading(fl[g])} IN
    [g \in Flights |->
       IF g = f THEN [Free EXCEPT !.kind = fl[f].kind, !.stage = "loading",
                                  !.name = fl[f].name, !.over = others # {}]
       ELSE IF g \in others THEN [fl[g] EXCEPT !.over = TRUE] ELSE fl[g]]

Gone(f) == flight' = [flight EXCEPT ![f] = Free]

Cool == [store EXCEPT !.forging = FALSE]

(* The answer is an error, or there is none.                               *)
Refused(f) ==
    /\ flight[f].stage \in {"asked", "served"}
    /\ Gone(f)
    /\ Set(Cool, FALSE)
    /\ UNCHANGED <<ctx, designs, registry, shown>>

(* The design path is gone since it was last asked for.                    *)
NoDesign(f) ==
    /\ flight[f].kind = "design" /\ flight[f].stage = "asked"
    /\ flight' = WithLoad(f, flight)
    /\ Set(Cool, FALSE)
    /\ UNCHANGED <<ctx, designs, registry, shown>>

Designed(f) ==
    /\ flight[f].kind = "design" /\ flight[f].stage = "asked"
    /\ Gone(f)
    /\ ctx' = flight[f].about
    /\ \E set \in {0, flight[f].about} :
         Set([Cool EXCEPT !.candidates = set], TRUE)
    /\ UNCHANGED <<designs, registry, shown>>

RunAnswered(f) ==
    /\ flight[f].kind = "run" /\ flight[f].stage = "asked"
    /\ Gone(f)
    /\ Set(Cool, FALSE)
    /\ UNCHANGED <<ctx, designs, registry, shown>>

Changed(f) ==
    /\ flight[f].kind = "change" /\ flight[f].stage = "asked"
    /\ flight' = WithLoad(f, [flight EXCEPT ![f].name = Nobody])
    /\ UNCHANGED <<page, ctx, designs, registry, shown>>

Cloned(f) ==
    /\ flight[f].kind = "clone" /\ flight[f].ok /\ flight[f].stage = "served"
    /\ flight' = WithLoad(f, flight)
    /\ UNCHANGED <<page, ctx, designs, registry, shown>>

(* The audition is closed first.                                           *)
Picked(f) ==
    /\ flight[f].kind = "pick" /\ flight[f].ok /\ flight[f].stage = "served"
    /\ flight' = WithLoad(f, flight)
    /\ ctx' = 0
    /\ Set([Cool EXCEPT !.candidates = 0], TRUE)
    /\ UNCHANGED <<designs, registry, shown>>

(* Faulty variant: the list of voices is one the browser still has.        *)
FetchCached(f) ==
    /\ flight[f].stage = "loading"
    /\ flight' = [flight EXCEPT ![f].stage = "fetched", ![f].ok = TRUE, ![f].voices = store.voices]
    /\ UNCHANGED <<page, ctx, designs, registry, shown>>

(* The server answers the three requests of a load; one of them may fail,  *)
(* which leaves that list empty.                                           *)
Fetch(f) ==
    /\ flight[f].stage = "loading"
    /\ flight' = [flight EXCEPT ![f].stage = "fetched", ![f].ok = TRUE, ![f].voices = registry]
    /\ UNCHANGED <<page, ctx, designs, registry, shown>>

FetchFails(f) ==
    /\ flight[f].stage = "loading"
    /\ flight' = [flight EXCEPT ![f].stage = "fetched", ![f].ok = FALSE, ![f].voices = {}]
    /\ UNCHANGED <<page, ctx, designs, registry, shown>>

(* _load sets what came, and its caller goes on.                           *)
Loaded(f) ==
    LET fl     == flight[f]
        forged == fl.kind \in {"clone", "pick"} IN
    /\ fl.stage = "fetched"
    /\ Gone(f)
    /\ \E door \in Doors :
         Set([store EXCEPT
                !.voices  = fl.voices,
                !.door    = door,
                !.focused = IF forged THEN fl.name ELSE @,
                !.forging = IF fl.kind \in {"clone", "change"} THEN FALSE ELSE @],
             TRUE)
    /\ shown' = IF fl.over \/ ~fl.ok THEN {}
                ELSE IF forged THEN shown \cup {fl.name} ELSE shown
    /\ UNCHANGED <<ctx, designs, registry>>

-----------------------------------------------------------------------------
User ==
    \/ Density \/ CloseChip \/ Reject
    \/ \E v \in Names : Focus(v) \/ Serve(v) \/ OpenChip(v)
    \/ \E delta \in {1, -1} : Move(delta)
    \/ \E i \in 0 .. Cardinality(Takes) - 1 : Click(i)
    \/ \E t \in Takes : Undo(t)
    \/ Release \/ \E k \in Knobs : Drag(k)
    \/ \E f \in Flights : CommitChip(f) \/ Run(f) \/ Clone(f) \/ Design(f) \/ Keep(f)

Network ==
    \/ \E s \in sockets : Settle(s)
    \/ \E f \in Flights :
         \/ Handle(f) \/ Refused(f) \/ NoDesign(f) \/ Designed(f) \/ RunAnswered(f)
         \/ Changed(f) \/ Cloned(f) \/ Picked(f) \/ Fetch(f) \/ FetchFails(f) \/ Loaded(f)

Next == User \/ Network

Spec == Init /\ [][Next]_vars

-----------------------------------------------------------------------------
(* Properties.                                                             *)

(* The anvil is hot only while something is under way that will cool it:   *)
(* no failure, no element taken off the page and no request overtaken by   *)
(* another leaves it stuck.                                                *)
WillCool(f) ==
    \/ flight[f].stage \in {"asked", "served"}
    \/ flight[f].kind \in {"clone", "change"} /\ Loading(flight[f])
AnvilCools == store.forging => sockets # {} \/ \E f \in Flights : WillCool(f)

(* A take that starts to play is of the voice whose editor is on display   *)
(* and of its slider as it was last released, whatever is dragged since:   *)
(* an audition that was replaced, or whose editor was painted over, is not *)
(* heard.  It is so but for a slider that is put back to the default (see  *)
(* TakeIsAsReleased).                                                      *)
TakeIsOfTheEditor ==
    [][heard' \notin {heard, Silence} =>
         /\ Bench /\ heard'.voice = store.focused
         /\ slider.released # Default \/ Stored[store.focused] = Default =>
              heard'.knob = slider.released]_vars

(* forge-spec-editor.js 10: "Hearing a change (U9): a slider thumb-release *)
(* runs a LOCAL one-shot WS audition, plays the result".  It is violated   *)
(* by a voice stored with a setting of its own whose slider is released at *)
(* the default: the editor leaves the knob out, and the server merges what *)
(* it is sent over what is stored.                                         *)
TakeIsAsReleased ==
    [][heard' \notin {heard, Silence} => heard'.knob = slider.released]_vars

(* A request is what the user meant on seeing the page: a chip changes the *)
(* backend of the card it is on, although its event names no voice, and a  *)
(* take is kept with the description it was designed from, although that   *)
(* is kept apart from the takes; and there is a take in focus to be kept   *)
(* or rejected whenever one is live, whatever was rejected and put back.   *)
RequestsAreMeant ==
    /\ \A f \in Flights :
         flight[f].stage = "asked" =>
           /\ flight[f].kind = "change" => flight[f].name = flight[f].card
           /\ flight[f].kind = "pick"   => flight[f].about = flight[f].card
    /\ Live # {} => sheet.focus \in 0 .. Cardinality(Live) - 1

(* A voice the page was told is forged stays on display, if no load fails  *)
(* or overlaps with another.                                               *)
NewVoicesAreShown == shown \subseteq store.voices

(* forge-app.js 521: "Guard on reference so a shell re-paint mid-audition  *)
(* (e.g. a density toggle) doesn't reset the user's cull state."           *)
CullSurvivesRepaint ==
    [][Sheet /\ store'.candidates = store.candidates /\ store'.bench # store.bench =>
         sheet' = sheet]_vars
=============================================================================
