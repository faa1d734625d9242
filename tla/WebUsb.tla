-------------------------------- MODULE WebUsb --------------------------------
(***************************************************************************)
(* The page of webusbboot with one Pi: the table of devices, and what it   *)
(* starts on them.  The Pi is connected in its ROM loader, gets its boot   *)
(* code (PushBootcode), goes away, comes back, and asks for the files of   *)
(* its firmware (FileServer).  A connection is a USBDevice object of its   *)
(* own; figureOutMode opens it, asks what it is, and closes it, which ends *)
(* any transfer that something else has under way on it, or it knows the   *)
(* device by its names.                                                    *)
(***************************************************************************)
EXTENDS PushBootcode, FileServer

CONSTANTS
    MaxObjects,   \* bound: connections
    MaxEntries,   \* bound: devices entered in the page
    MaxDisturbed  \* bound: how often the user or the bus is in the way

ASSUME OnePi == Cardinality(Pushes) = 1

VARIABLES
    usb,       \* the Pi: not connected, or what it is connected as
    object,    \* the USBDevice of the connection there is, or was last
    named,     \* its names tell its mode
    autopush,  \* the checkbox
    lookups,   \* calls of figureOutMode, and how far each is
    entries,   \* the elements that createDevice made; devices[] has the last
    disturbed  \* history: how often the user or the bus was in the way
tableVars == <<usb, object, named, autopush, lookups, entries>>
pageVars == <<vars, fsVars, tableVars, disturbed>>

ThePi == CHOOSE p \in Pushes : TRUE
Disturbs == disturbed < MaxDisturbed /\ disturbed' = disturbed + 1
Undisturbed == disturbed = 0
Connected(o) == usb # "out" /\ object = o

(* A call of figureOutMode, for the user or not: a device that it knows by its
   names is not asked. *)
Lookup(o, asked, known) ==
    [object |-> o, asked |-> asked, at |-> IF known THEN "close" ELSE "ask"]

(* The Pi has all of one file, and starts it. *)
Booted == pc[ThePi] = "done" /\ \E image \in Images : device[ThePi].got = Units(image)

(* The selections that the page is loaded with; no file is asked for yet. *)
PageInit ==
    /\ Init /\ ServerInit
    /\ root = CHOOSE r \in Roots : TRUE
    /\ file = CHOOSE f \in Files : TRUE
    /\ usb = "out" /\ object = 0 /\ named = FALSE
    /\ autopush \in BOOLEAN
    /\ lookups = {} /\ entries = <<>>
    /\ disturbed = 0

-----------------------------------------------------------------------------
(* The bus *)

NoPush ==
    /\ pc' = [p \in Pushes |-> "idle"]
    /\ length' = [p \in Pushes |-> 0] /\ position' = [p \in Pushes |-> 0]
    /\ sending' = [p \in Pushes |-> <<>>]
    /\ device' = [p \in Pushes |-> Fresh]
    /\ seen' = [p \in Pushes |-> {}]
NoServer ==
    /\ chain' = "idle" /\ body' = 0 /\ start' = 0
    /\ pi' = "free" /\ file' = file /\ size' = 0 /\ announced' = 0 /\ got' = 0
    /\ used' = {root}

(* getDevices or onconnect: a new object, whose mode is looked up, and on which
   nothing has been pushed or asked.  Bound: when it will ask for files, no
   boot code is being fetched. *)
PlugIn ==
    /\ usb = "out" /\ object < MaxObjects
    /\ Len(entries) + Cardinality(lookups) < MaxEntries
    /\ usb' \in IF Booted THEN {"server"} ELSE {"rom", "server"}
    /\ usb' = "server" => fetching = {}
    /\ object' = object + 1 /\ named' \in BOOLEAN
    /\ lookups' = lookups \cup {Lookup(object', FALSE, named')}
    /\ NoPush /\ NoServer
    /\ IF usb' = "server" /\ ~Booted THEN Disturbs ELSE UNCHANGED disturbed
    /\ UNCHANGED <<fetching, payload, header, root, autopush, entries>>

(* What had a transfer under way on the device gets it rejected, and what is
   being fetched for it finds the device closed (bound: it is not open again by
   then).  The Pi is not asked. *)
TransfersEnd ==
    /\ pc' = [p \in Pushes |-> IF pc[p] \in Active THEN "failed" ELSE pc[p]]
    /\ chain' = (IF chain \in {"read", "fetch", "answer", "chunk"} THEN "stopped" ELSE chain)
    /\ UNCHANGED <<fetching, payload, header, length, position, sending, device, seen,
                   root, body, start, file, size, announced, got, used>>

(* ondisconnect: the element that was entered last for the serial number; one
   that is removed already has no parent, which is an error and no change. *)
OnDisconnect ==
    entries' = [n \in DOMAIN entries |->
        IF n = Len(entries) THEN [entries[n] EXCEPT !.shown = FALSE] ELSE entries[n]]

(* The Pi goes away: because it starts its boot code, or is unplugged. *)
Disconnect ==
    /\ usb # "out" /\ usb' = "out"
    /\ IF usb = "rom" /\ Booted THEN UNCHANGED disturbed ELSE Disturbs
    /\ lookups' = {l \in lookups : l.object # object \/ l.at # "ask"}
    /\ OnDisconnect
    /\ TransfersEnd /\ pi' = "gone"
    /\ UNCHANGED <<object, named, autopush>>
Reboots == usb = "rom" /\ Booted /\ Disconnect

-----------------------------------------------------------------------------
(* The table *)

(* "check for pi": requestDevice gives the object that there is. *)
RequestAccess ==
    /\ usb # "out"
    /\ Len(entries) + Cardinality(lookups) < MaxEntries
    /\ \A l \in lookups : ~l.asked
    /\ lookups' = lookups \cup {Lookup(object, TRUE, named)}
    /\ Disturbs
    /\ UNCHANGED <<vars, fsVars, usb, object, named, autopush, entries>>

(* figureOutMode has its answer and closes the device: the Pi stays, and goes on
   waiting for what it has asked for. *)
LookupAnswered(l) ==
    /\ l.at = "ask" /\ Connected(l.object)
    /\ lookups' = {k \in lookups : k.object # l.object \/ k.at # "ask"}
                  \cup {[l EXCEPT !.at = "close"]}
    /\ TransfersEnd
    /\ UNCHANGED <<pi, usb, object, named, autopush, entries, disturbed>>

(* connectToPi throws when there is no payload, or does not get the device
   open; startFileserver may only fail in the second way. *)
CanPush == usb = "rom" /\ payload \in Images
CanServe == usb = "server" /\ chain \notin {"read", "fetch", "answer", "chunk", "closed"} /\ pi # "data"

Entry(l) == [object |-> l.object, button |-> TRUE, shown |-> TRUE]

(* mutant: a device that is entered has to be started by hand *)
HandleNewDeviceByHand(l) ==
    /\ l.at = "close"
    /\ lookups' = lookups \ {l}
    /\ entries' = Append(entries, Entry(l))
    /\ UNCHANGED <<vars, fsVars, usb, object, named, autopush, disturbed>>

(* handleNewDevice once the mode is known: the device is entered, and started
   when the box is checked.  Bound: not while a push runs on it. *)
HandleNewDevice(l) ==
    /\ l.at = "close"
    /\ lookups' = lookups \ {l}
    /\ entries' = Append(entries, Entry(l))
    /\ IF autopush /\ Connected(l.object)
         THEN \/ CanPush /\ Connect(ThePi) /\ UNCHANGED <<fsVars, disturbed>>
              \/ CanServe /\ StartFileserver /\ UNCHANGED <<vars, disturbed>>
              \/ ~CanPush /\ ~CanServe /\ disturbed' = disturbed + 1 /\ UNCHANGED <<vars, fsVars>>
         ELSE UNCHANGED <<vars, fsVars, disturbed>>
    /\ UNCHANGED <<usb, object, named, autopush>>

(* The button of an element.  Bound: not while what it starts runs. *)
Click(n) ==
    /\ entries[n].shown /\ entries[n].button /\ Connected(entries[n].object)
    /\ \/ CanPush /\ Connect(ThePi) /\ UNCHANGED fsVars
       \/ CanServe /\ StartFileserver /\ UNCHANGED vars
    /\ UNCHANGED <<tableVars, disturbed>>

(* flagDomFinished: no button is left to the device that was entered last. *)
FlagDomFinished ==
    entries' = [n \in DOMAIN entries |->
        IF n = Len(entries) THEN [entries[n] EXCEPT !.button = FALSE] ELSE entries[n]]

-----------------------------------------------------------------------------
(* The push and the file server, on the connection that there is.  What the
   user selects is chosen while it matters. *)

Select ==
    /\ usb # "server"
    /\ \E image \in Images :
          \/ FetchDone(image) /\ UNCHANGED disturbed
          \/ (Fetch(image) \/ FetchMissing(image) \/ FetchLost(image)) /\ Disturbs
    /\ UNCHANGED <<fsVars, tableVars>>
Push ==
    /\ usb = "rom" /\ Step(ThePi)
    /\ IF pc'[ThePi] = "done" THEN FlagDomFinished ELSE UNCHANGED entries
    /\ UNCHANGED <<fsVars, usb, object, named, autopush, lookups, disturbed>>
PushFails ==
    /\ Fail(ThePi) /\ Disturbs
    /\ UNCHANGED <<fsVars, tableVars>>
Serve == Server /\ UNCHANGED <<vars, tableVars, disturbed>>
ServeFails == (TransferFails \/ FetchUnanswered) /\ UNCHANGED <<vars, tableVars, disturbed>>
SelectRoot ==
    /\ usb = "server" /\ \E r \in Roots : UpdateRoot(r)
    /\ UNCHANGED <<vars, tableVars, disturbed>>
PiAsks == usb = "server" /\ Pi /\ UNCHANGED <<vars, tableVars, disturbed>>

Table == \E l \in lookups : LookupAnswered(l) \/ HandleNewDevice(l)
PageNext ==
    \/ PlugIn \/ Disconnect \/ RequestAccess \/ Table
    \/ (\E n \in DOMAIN entries : Click(n))
    \/ Select \/ Push \/ PushFails \/ Serve \/ ServeFails \/ SelectRoot \/ PiAsks

(* Transfers and fetches end; a Pi that has its boot code starts it and comes
   back, and one that was told a size reads. *)
PageFairness ==
    /\ WF_pageVars(Push) /\ WF_pageVars(Table)
    /\ WF_pageVars(Reboots) /\ WF_pageVars(PlugIn /\ Booted)
    /\ WF_pageVars(Serve)
    /\ WF_pageVars(usb = "server" /\ AskRead /\ UNCHANGED <<vars, tableVars, disturbed>>)
PageSpec == PageInit /\ [][PageNext]_pageVars /\ PageFairness

-----------------------------------------------------------------------------
(* What must hold *)

(* "also implements the fileserver used by the official firmware", README.md:15:
   once the server is started every request is answered, sizes, also of missing
   files, files, and done, for as long as the Pi is plugged in.  A second lookup
   of the device closes it, and the server on it ends: with autopush it is
   started again, but not in the middle of a file.  Nothing answers where the
   device was left alone like this, where the bus rejected a transfer or a fetch
   was lost, and where a read finds no file that had a size below another root. *)
Looks(o) == Cardinality({n \in DOMAIN entries : entries[n].object = o})
            + Cardinality({l \in lookups : l.object = o})
LeftAlone == Looks(object) > 1 /\ (~autopush \/ pi = "data")
PluggedServed ==
    (pi \in Asking /\ chain # "idle") ~> (pi \notin Asking \/ Excused \/ LeftAlone)

(* "if `auto push bootcode` is checked, it will push the last fetched .bin upon
   detecting a usb device", README.md:13, and serve the firmware: a Pi in its
   ROM loader comes back and finds the file server started, with no click.  Not
   when the user or the bus was in the way, or nothing was fetched in time. *)
BootsUnattended ==
    (autopush /\ usb = "rom") ~> (chain # "idle" \/ ~Undisturbed)
=============================================================================
