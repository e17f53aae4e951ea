--------------------------- MODULE InstallerInit ---------------------------
(***************************************************************************)
(* PID 1 of the installer initramfs (internal/installerinit): the boot     *)
(* sequence with LK's watchdog running, the display gate, the acquisition  *)
(* of the panel over DRM (internal/drm), and then two goroutines that draw *)
(* into one surface, the status painter of loop() and the dialog server    *)
(* that dc1-ask and dc1-debug talk to (dialog.go, internal/ask).           *)
(*                                                                         *)
(* Time is counted in units of ten seconds and passes only while PID 1     *)
(* waits: in a WaitFor of the gate and in the sleep of loop().             *)
(***************************************************************************)
EXTENDS Naturals, Sequences

CONSTANTS
    Clients,    \* processes that ask a question on the panel
    NoClient,   \* no connection is being served
    WdtTicks,   \* LK's ~31 s watchdog
    GceWait,    \* the waits of the gate: GCE driver,
    NodeWait,   \* DSI device and DRM card
    Starting,   \* the first status
    StatusFiles,\* contents of /tmp/installer-status, as sequences of lines
    MaxLines    \* maxStatusLines

ASSUME InstallerInitAssumption ==
    /\ NoClient \notin Clients
    /\ {WdtTicks, GceWait, NodeWait, MaxLines} \subseteq Nat \ {0}
    /\ {<<>>, Starting} \subseteq StatusFiles

VARIABLES
    init,     \* where PID 1's main goroutine is
    step,     \* the gate step it is at
    waited,   \* units spent in the current WaitFor
    able,     \* rc.sh, busybox and /dev/watchdog are all there
    rc,       \* rc.sh: "none", or "petting"
    wdt,      \* units left on the watchdog
    nodes,    \* sysfs and device nodes that exist: "gce", "dsi", "card"
    done,     \* writes of the gate that took effect
    drm,      \* where PID 1 and a hand-run dc1-ask probe are in Acquire
    master,   \* who is DRM master
    mu,       \* who holds paintMu; "lost": a dialog that has panicked
    server,   \* where the dialog server is
    conn,     \* the connection it serves
    backlog,  \* connections not yet accepted
    cl,       \* each client: "idle", "waiting", "answered", "fallback", "dead"
    req,      \* the request it has decoded
    status,   \* the status file
    read,     \* what the painter has read from it
    shown     \* what the glass shows

boot    == <<step, waited, nodes, done>>
clock   == <<able, rc, wdt>>
display == <<drm, master>>
dialogs == <<server, conn, backlog, cl, req>>
paint   == <<status, read, shown>>
pid1Vars == <<init, boot, clock, display, mu, dialogs, paint>>

Holders == {"pid1", "probe"}

(* A request: a question the dialogs can show, one that ends at once with    *)
(* exit 2 (an unknown mode, a menu without options), or fewer than two       *)
(* arguments.                                                                *)
Requests == {"good", "odd", "short"}

Reset == wdt = 0

(* A status line is blank, a text, or a PROGRESS line with its number (which *)
(* may be over 100) or with something that is not a number.                  *)
Line == [is : {"blank", "text", "progress", "notANumber"}, n : Nat]
NoBar == 101

DefaultStatus == <<[is |-> "text", n |-> 0]>>

StatusLines(file) ==
    LET text == SelectSeq(file, LAMBDA l : l.is = "text")
    IN  IF text = <<>> THEN DefaultStatus
        ELSE SubSeq(text, 1, IF Len(text) < MaxLines THEN Len(text) ELSE MaxLines)

(* The last PROGRESS line that parses wins, clamped to 100; NoBar without.   *)
ProgressPct(file) ==
    LET bars == SelectSeq(file, LAMBDA l : l.is = "progress")
        last == bars[Len(bars)].n
    IN  IF bars = <<>> THEN NoBar ELSE IF last > 100 THEN 100 ELSE last

(* An empty or missing file shows DefaultStatus. *)
Shown(file) == IF \A i \in DOMAIN file : file[i].is = "blank" THEN DefaultStatus ELSE file

(* What PaintStatus puts on the glass for a status file. *)
PaintStatus(file) == [by |-> "status", lines |-> StatusLines(file), pct |-> ProgressPct(file)]
Dark == [by |-> "nobody", lines |-> <<>>, pct |-> NoBar]
Dialog(c) == [by |-> c, lines |-> <<>>, pct |-> NoBar]

Pid1TypeOK ==
    /\ init \in {"mounts", "gadget", "status", "stage2", "gate", "acquire",
                 "loop", "painting", "sleep"}
    /\ step \in 1 .. 11 /\ waited \in 0 .. NodeWait
    /\ able \in BOOLEAN /\ rc \in {"none", "petting"} /\ wdt \in 0 .. WdtTicks
    /\ nodes \subseteq {"gce", "dsi", "card"}
    /\ drm \in [Holders -> {"idle", "master", "buffer", "lit", "failed"}]
    /\ master \in Holders \cup {"nobody"}
    /\ mu \in {"free", "loop", "dialog", "lost"}
    /\ server \in {"off", "refused", "accept", "decode", "silent", "open", "lock", "draw", "tap"}
    /\ conn \in Clients \cup {NoClient}
    /\ req \in Requests
    /\ cl \in [Clients -> {"idle", "waiting", "answered", "fallback", "dead"}]
    /\ {status, read} \subseteq StatusFiles \cup {DefaultStatus}

Pid1Init ==
    /\ init = "mounts" /\ step = 1 /\ waited = 0
    /\ able \in BOOLEAN /\ rc = "none" /\ wdt = WdtTicks
    /\ nodes \in {{}, {"gce"}} /\ done = {}
    /\ drm = [p \in Holders |-> "idle"] /\ master = "nobody"
    /\ mu = "free" /\ server = "off" /\ conn = NoClient /\ backlog = <<>>
    /\ cl = [c \in Clients |-> "idle"] /\ req = "good"
    /\ status = <<>> /\ read = <<>> /\ shown = Dark

-----------------------------------------------------------------------------
(* The boot sequence of Run.  Every failure of it is logged and stepped over. *)

MountAll ==
    /\ ~Reset /\ init = "mounts" /\ init' = "gadget"
    /\ UNCHANGED <<boot, clock, display, mu, dialogs, paint>>

(* Each configfs node may fail by itself and the UDC bind may fail: that is  *)
(* logged, rc.sh retries, PID 1 goes on.                                     *)
Gadget ==
    /\ ~Reset /\ init = "gadget" /\ init' = "status"
    /\ UNCHANGED <<boot, clock, display, mu, dialogs, paint>>

(* The status file is created, or cannot be. *)
WriteStatus ==
    /\ ~Reset /\ init = "status" /\ init' = "stage2"
    /\ status' \in {status, Starting}
    /\ UNCHANGED <<boot, clock, display, mu, dialogs, read, shown>>

(* Variant: the display comes first and rc.sh after it. *)
DisplayFirst ==
    /\ ~Reset /\ init = "stage2" /\ init' = "gate"
    /\ UNCHANGED <<boot, clock, display, mu, dialogs, paint>>

(* rc.sh is spawned; its first job is to find and pet /dev/watchdog. *)
StartSecondStage ==
    /\ ~Reset /\ init = "stage2" /\ init' = "gate"
    /\ rc' = IF able THEN "petting" ELSE rc
    /\ UNCHANGED <<boot, able, wdt, display, mu, dialogs, paint>>

(* One unit of PID 1 waiting: rc.sh pets meanwhile, if it does at all. *)
Elapse == wdt' = IF rc = "petting" THEN WdtTicks ELSE wdt - 1

(* The gate as data; skip: not needed when GCE has its driver already. *)
Step(op, node, skip, optional) == [op |-> op, node |-> node, skip |-> skip, optional |-> optional]

GateSequence ==
    << Step("write", "skipClient", FALSE, FALSE),
       Step("write", "gceParam", TRUE, FALSE),
       Step("write", "gceProbe", TRUE, FALSE),
       Step("wait", "gce", TRUE, FALSE),
       Step("wait", "dsi", FALSE, FALSE),
       Step("write", "printk", FALSE, TRUE),
       Step("write", "power", FALSE, FALSE),
       Step("write", "stage", FALSE, FALSE),
       Step("write", "panelProbe", FALSE, FALSE),
       Step("wait", "card", FALSE, FALSE) >>

WaitLimit(node) == IF node = "gce" THEN GceWait ELSE NodeWait

GateAt(op) ==
    /\ ~Reset /\ init = "gate" /\ step <= Len(GateSequence)
    /\ GateSequence[step].op = op
    /\ ~(GateSequence[step].skip /\ "gce" \in nodes)

GateOn == init' = init /\ step' = step + 1 /\ waited' = 0

(* No panel driver, or a step that is not optional fails: no display. *)
GateEnds ==
    /\ init' = "loop" /\ step' = 1 /\ waited' = 0

GateFails(s) == IF s.optional THEN GateOn ELSE GateEnds

NoPanelDriver ==
    /\ ~Reset /\ init = "gate" /\ step = 1 /\ GateEnds
    /\ UNCHANGED <<nodes, done, clock, display, mu, dialogs, paint>>

GateSkip ==
    /\ ~Reset /\ init = "gate" /\ step <= Len(GateSequence)
    /\ GateSequence[step].skip /\ "gce" \in nodes
    /\ GateOn
    /\ UNCHANGED <<nodes, done, clock, display, mu, dialogs, paint>>

GateWrite ==
    /\ GateAt("write")
    /\ \/ GateOn /\ done' = done \cup ({GateSequence[step].node} \cap {"gceProbe", "power", "panelProbe"})
       \/ GateFails(GateSequence[step]) /\ UNCHANGED done
    /\ UNCHANGED <<nodes, clock, display, mu, dialogs, paint>>

(* WaitFor: look, give up after the deadline, otherwise sleep and look again. *)
GateWait ==
    /\ GateAt("wait")
    /\ LET s == GateSequence[step] IN
       \/ s.node \in nodes /\ GateOn /\ UNCHANGED wdt
       \/ s.node \notin nodes /\ waited = WaitLimit(s.node) /\ GateFails(s) /\ UNCHANGED wdt
       \/ /\ s.node \notin nodes /\ waited < WaitLimit(s.node)
          /\ waited' = waited + 1 /\ Elapse /\ UNCHANGED <<init, step>>
    /\ UNCHANGED <<nodes, done, able, rc, display, mu, dialogs, paint>>

GateOpen ==
    /\ ~Reset /\ init = "gate" /\ step > Len(GateSequence)
    /\ init' = "acquire" /\ step' = 1 /\ waited' = 0
    /\ UNCHANGED <<nodes, done, clock, display, mu, dialogs, paint>>

(* The kernel: GCE binds once poked, the DSI device enumerates by itself,    *)
(* the card appears once the panel has been probed.  Nobody looks later.      *)
NodeAppears ==
    /\ ~Reset /\ init = "gate"
    /\ \/ "gceProbe" \in done /\ nodes' = nodes \cup {"gce"}
       \/ nodes' = nodes \cup {"dsi"}
       \/ "panelProbe" \in done /\ nodes' = nodes \cup {"card"}
    /\ nodes' # nodes
    /\ UNCHANGED <<init, step, waited, done, clock, display, mu, dialogs, paint>>

-----------------------------------------------------------------------------
(* drm.Acquire, by PID 1 and by a dc1-ask probe that somebody runs by hand. *)

(* SET_MASTER fails with EBUSY while another process is master. *)
SetMaster(p) == master = "nobody" /\ master' = p

AcquireFails(p) ==
    /\ drm' = [drm EXCEPT ![p] = IF p = "pid1" THEN "failed" ELSE "idle"]
    /\ master' = IF master = p THEN "nobody" ELSE master

(* Open, SET_MASTER, two GETRESOURCES, a connected connector, CREATE_DUMB,   *)
(* ADDFB2, MAP_DUMB, mmap and SETCRTC: any of them may fail, and a failure   *)
(* closes the card, which gives mastership back.                             *)
Acquire(p) ==
    \/ /\ drm[p] = "idle" /\ "card" \in nodes /\ SetMaster(p)
       /\ drm' = [drm EXCEPT ![p] = "master"]
    \/ drm[p] = "master" /\ drm' = [drm EXCEPT ![p] = "buffer"] /\ UNCHANGED master
    \/ drm[p] = "buffer" /\ drm' = [drm EXCEPT ![p] = "lit"] /\ UNCHANGED master
    \/ drm[p] \in {"idle", "master", "buffer"} /\ AcquireFails(p)

AcquireDisplay ==
    /\ ~Reset /\ init = "acquire" /\ Acquire("pid1")
    /\ init' = IF drm'["pid1"] \in {"lit", "failed"} THEN "loop" ELSE init
    /\ UNCHANGED <<boot, clock, mu, dialogs, paint>>

Surface == drm["pid1"] = "lit"

(* dc1-ask probe: its own surface, a tap, and Close; without DRM it falls    *)
(* back to fbdev or /dev/mem, neither of which reaches this glass.           *)
Probe ==
    /\ ~Reset /\ rc = "petting"
    /\ \/ Acquire("probe")
       \/ /\ drm["probe"] = "lit" /\ AcquireFails("probe")
    /\ UNCHANGED <<init, boot, clock, mu, dialogs, paint>>

-----------------------------------------------------------------------------
(* loop(): read the status, paint unless a dialog is up, reap, sleep. *)

LoopTry ==
    /\ ~Reset /\ init = "loop"
    /\ IF Surface /\ mu = "free"
       THEN mu' = "loop" /\ init' = "painting" /\ read' = Shown(status)
       ELSE init' = "sleep" /\ UNCHANGED <<mu, read>>
    /\ UNCHANGED <<boot, clock, display, dialogs, status, shown>>

LoopBlit ==
    /\ ~Reset /\ init = "painting" /\ init' = "sleep"
    /\ shown' = PaintStatus(read) /\ mu' = "free" /\ read' = <<>>
    /\ UNCHANGED <<boot, clock, display, dialogs, status>>

LoopSleep ==
    /\ ~Reset /\ init = "sleep" /\ init' = "loop" /\ Elapse
    /\ UNCHANGED <<boot, able, rc, display, mu, dialogs, paint>>

(* rc.sh, installd and the touch front end rewrite the status file. *)
StatusWritten ==
    /\ ~Reset /\ rc = "petting" /\ status' \in StatusFiles
    /\ UNCHANGED <<init, boot, clock, display, mu, dialogs, read, shown>>

-----------------------------------------------------------------------------
(* The dialog server: one connection at a time, one question per connection. *)

serving == <<init, boot, clock, display>>

CloseConn(c, outcome) == cl' = [cl EXCEPT ![c] = IF @ = "waiting" THEN outcome ELSE @]

(* conn.Close() in serveOne; the client reads what was encoded, or EOF. *)
HangUp(outcome) ==
    /\ server' = "accept" /\ conn' = NoClient /\ req' = "good"
    /\ CloseConn(conn, outcome)

GoOn(to) == server' = to /\ UNCHANGED <<conn, cl, req>>

(* The socket is bound, or cannot be and is logged. *)
Listen ==
    /\ ~Reset /\ Surface /\ init \in {"loop", "painting", "sleep"} /\ server = "off"
    /\ GoOn("accept") \/ GoOn("refused")
    /\ UNCHANGED <<serving, mu, backlog, paint>>

Accept ==
    /\ ~Reset /\ server = "accept" /\ backlog # <<>> /\ server' \in {"decode", "silent"}
    /\ conn' = Head(backlog) /\ backlog' = Tail(backlog)
    /\ UNCHANGED <<serving, mu, cl, req, paint>>

(* Something that is not JSON ends the connection.  Nothing bounds the wait  *)
(* for a request: a silent client is waited for until it dies.               *)
Decode ==
    /\ ~Reset
    /\ \/ server = "decode" /\ server' = "open" /\ req' \in Requests /\ UNCHANGED <<conn, cl>>
       \/ server = "decode" /\ HangUp("fallback")
       \/ server = "silent" /\ cl[conn] = "dead" /\ HangUp("fallback")
    /\ UNCHANGED <<serving, mu, backlog, paint>>

(* NewScreen opens the touchscreen before the surface is locked. *)
OpenTouch ==
    /\ ~Reset /\ server = "open"
    /\ GoOn("lock") \/ HangUp("fallback")
    /\ UNCHANGED <<serving, mu, backlog, paint>>

(* Lock and Screen.Run.  With fewer than two arguments run() panics: the     *)
(* connection is closed by the deferred calls, paintMu is not unlocked.      *)
LockAndRun ==
    /\ ~Reset /\ server = "lock" /\ mu = "free"
    /\ \/ req = "good" /\ GoOn("draw") /\ mu' = "dialog"
       \/ req = "odd" /\ HangUp("fallback") /\ UNCHANGED mu
       \/ req = "short" /\ HangUp("fallback") /\ mu' = "lost"
    /\ UNCHANGED <<serving, backlog, paint>>

(* Variant: the lock is given back when the dialog has been drawn. *)
DrawUnlocks ==
    /\ ~Reset /\ server = "draw" /\ GoOn("tap") /\ shown' = Dialog(conn) /\ mu' = "free"
    /\ UNCHANGED <<serving, backlog, status, read>>

Draw ==
    /\ ~Reset /\ server = "draw" /\ GoOn("tap") /\ shown' = Dialog(conn)
    /\ UNCHANGED <<serving, mu, backlog, status, read>>

(* Variant: the lock is kept when the touchscreen fails under the dialog. *)
AnswerKeepsLock ==
    /\ ~Reset /\ server = "tap"
    /\ \/ HangUp("answered") /\ mu' = "free"
       \/ HangUp("fallback") /\ UNCHANGED mu
    /\ UNCHANGED <<serving, backlog, paint>>

(* A tap that does not answer leaves the dialog up, redrawn; one that does,  *)
(* or a touchscreen that fails, ends it and unlocks.                         *)
AnswerDialog ==
    /\ ~Reset /\ server = "tap" /\ mu' = "free"
    /\ HangUp("answered") \/ HangUp("fallback")
    /\ UNCHANGED <<serving, backlog, paint>>

-----------------------------------------------------------------------------
(* The clients: dc1-ask for tui.sh, dc1-debug, or anything else that finds   *)
(* the socket.  Without a server the exit code is 2 at once.                 *)

Forward(c) ==
    /\ ~Reset /\ rc = "petting" /\ cl[c] \in {"idle", "answered"}
    /\ IF server \in {"off", "refused"}
       THEN cl' = [cl EXCEPT ![c] = "fallback"] /\ UNCHANGED backlog
       ELSE cl' = [cl EXCEPT ![c] = "waiting"] /\ backlog' = Append(backlog, c)
    /\ UNCHANGED <<serving, mu, server, conn, req, paint>>

ClientDies(c) ==
    /\ ~Reset /\ cl[c] = "waiting" /\ cl' = [cl EXCEPT ![c] = "dead"]
    /\ UNCHANGED <<serving, mu, server, conn, backlog, req, paint>>

-----------------------------------------------------------------------------
Boot == \/ MountAll \/ Gadget \/ WriteStatus \/ StartSecondStage
        \/ NoPanelDriver \/ GateSkip \/ GateWrite \/ GateWait \/ GateOpen
        \/ AcquireDisplay

Loop == LoopTry \/ LoopBlit \/ LoopSleep

Server == Listen \/ Accept \/ Decode \/ OpenTouch \/ LockAndRun \/ Draw \/ AnswerDialog

Pid1Next ==
    \/ Boot \/ Loop \/ Server \/ NodeAppears \/ Probe \/ StatusWritten
    \/ \E c \in Clients : Forward(c) \/ ClientDies(c)

Pid1Spec == Pid1Init /\ [][Pid1Next]_pid1Vars

(* PID 1's goroutines run, and somebody answers the dialogs on the panel.    *)
(* Clients, the probe and the kernel's late nodes owe nothing.               *)
(* A goroutine blocked in Lock gets the mutex before the loop can take it    *)
(* for ever (the runtime's starvation mode): strong fairness of LockAndRun.  *)
FairSpec ==
    /\ Pid1Spec /\ WF_pid1Vars(Boot) /\ WF_pid1Vars(Loop) /\ WF_pid1Vars(Server)
    /\ SF_pid1Vars(LockAndRun)

-----------------------------------------------------------------------------
(* Properties. *)

(* A dialog that waits for a tap is what the glass shows: neither the status *)
(* painter nor anything else repaints it, so the user answers the question   *)
(* that is asked (installerinit.go:178-181).                                 *)
DialogStaysUp == server = "tap" => shown = Dialog(conn)

(* The watchdog does not fire on a board whose rc.sh can pet it, however     *)
(* long the gate waits: "Acquiring the display first can therefore reset the *)
(* device" (installerinit.go:24-29).                                         *)
PettedInTime == Reset => ~able

(* The lock is held by a dialog that panicked: nobody will give it back. *)
Jammed == mu = "lost"

(* The server waits in Decode for a client that says nothing. *)
Stuck == server = "silent"

(* Every client gets an answer or the close that makes it exit 2, unless a   *)
(* silent connection holds the one-at-a-time server or a dialog has panicked *)
(* (dialog.go:36-40, ask.go:218-229).                                        *)
ClientsReleased ==
    \A c \in Clients : cl[c] = "waiting" ~> (cl[c] # "waiting" \/ Stuck \/ Jammed \/ Reset)

(* The status screen comes back: once a surface exists, a status that stays  *)
(* in the file is on the glass eventually, unless a dialog takes its place,  *)
(* one has panicked with the lock, or the board resets                       *)
(* (installerinit.go:237-265).                                               *)
StatusShown ==
    \A s \in StatusFiles :
        (Surface /\ status = s) ~>
            \/ shown = PaintStatus(Shown(s)) \/ status # s
            \/ server \in {"draw", "tap"} \/ Jammed \/ Reset
=============================================================================
