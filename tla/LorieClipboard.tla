--------------------------- MODULE LorieClipboard ---------------------------
(***************************************************************************)
(* The clipboard that Android and the X clients share: clipboard.c in the  *)
(* X server, and the clipboard methods of LorieView in the activity, joined*)
(* by a socket with a queue in each direction.  A text is the number of    *)
(* the copy that made it; conversions between encodings are left out.      *)
(***************************************************************************)
EXTENDS Naturals, Sequences

CONSTANTS
    Requestors,               \* X clients that paste
    MaxTexts,                 \* bound: texts copied on either side
    MaxCuts                   \* bound: disconnections

VARIABLES
    texts,                    \* texts copied so far
    clip, unannounced,        \* Android's clipboard; changed since announced
    recent,                   \* set by X less than 150 ms ago
    connC, toX, toActivity,   \* the socket
    works,                    \* work procedures of the X server
    clipboardEnabled, cachedData, owner, xText, asked,   \* the X server
    pending,                  \* lorieDataTargetHead: requestors that wait
    crossed,                  \* an announcement was lost, or texts of both
                              \* sides crossed on their way
    unheard,                  \* requestors whose request was lost
    cuts

clipAndroid == <<clip, unannounced, recent>>
clipServer == <<works, clipboardEnabled, cachedData, owner, xText, asked,
                pending>>
clipVars == <<texts, clipAndroid, connC, toX, toActivity, clipServer, crossed,
              unheard, cuts>>

NoText == 0
Texts == 1 .. MaxTexts
ClipMsg(t, x) == <<t, x>>
Type(m) == m[1]
Text(m) == m[2]

InFlight(q, t) == \E i \in 1 .. Len(q) : Type(q[i]) = t

ClipInit ==
    /\ texts = 0 /\ clip = NoText /\ unannounced = FALSE /\ recent = FALSE
    /\ connC = FALSE /\ toX = <<>> /\ toActivity = <<>> /\ works = <<>>
    /\ clipboardEnabled = FALSE /\ cachedData = NoText /\ owner = "none"
    /\ xText = NoText /\ asked = "no" /\ pending = {}
    /\ crossed = FALSE /\ unheard = {} /\ cuts = 0

-----------------------------------------------------------------------------
(* The socket. *)

(* The activity enables the synchronisation on a new connection. *)
ConnectC ==
    /\ ~connC
    /\ connC' = TRUE
    /\ toX' = <<ClipMsg("enable", NoText)>> /\ toActivity' = <<>>
    /\ UNCHANGED <<texts, clipAndroid, clipServer, crossed, unheard, cuts>>

(* The error branch of handleLorieEvents(): what was not read is lost, the *)
(* work procedures that are queued stay so.                                *)
Cut ==
    /\ connC /\ cuts < MaxCuts
    /\ cuts' = cuts + 1
    /\ connC' = FALSE /\ toX' = <<>> /\ toActivity' = <<>>
    /\ clipboardEnabled' = FALSE
    /\ crossed' = (crossed \/ InFlight(toX, "announce"))
    /\ unheard' = pending
    /\ UNCHANGED <<texts, clipAndroid, works, cachedData, owner, xText, asked,
                   pending>>

-----------------------------------------------------------------------------
(* Android and the activity. *)

(* Some app copies a text.  Its time stamp is not later than the one that  *)
(* setClipboardText() has noted, if that is recent.                        *)
AndroidCopy ==
    /\ texts < MaxTexts
    /\ texts' = texts + 1 /\ clip' = texts + 1
    /\ unannounced' = ~recent
    /\ crossed' = (crossed \/ recent)
    /\ UNCHANGED <<recent, connC, toX, toActivity, clipServer, unheard, cuts>>

Later ==
    /\ recent /\ recent' = FALSE
    /\ UNCHANGED <<texts, clip, unannounced, connC, toX, toActivity,
                   clipServer, crossed, unheard, cuts>>

(* checkForClipboardChange() *)
Announce ==
    /\ unannounced /\ unannounced' = FALSE
    /\ toX' = IF connC THEN Append(toX, ClipMsg("announce", NoText)) ELSE toX
    /\ crossed' = (crossed \/ ~connC)
    /\ UNCHANGED <<texts, clip, recent, connC, toActivity, clipServer,
                   unheard, cuts>>

(* Mutant of RequestClipboard: no answer when the clipboard has changed. *)
RequestClipboardChanged ==
    /\ toActivity # <<>> /\ Type(Head(toActivity)) = "request"
    /\ toActivity' = Tail(toActivity)
    /\ toX' = IF unannounced THEN toX ELSE Append(toX, ClipMsg("data", clip))
    /\ UNCHANGED <<texts, clipAndroid, connC, clipServer, crossed, unheard,
                   cuts>>

(* requestClipboard() *)
RequestClipboard ==
    /\ toActivity # <<>> /\ Type(Head(toActivity)) = "request"
    /\ toActivity' = Tail(toActivity)
    /\ toX' = Append(toX, ClipMsg("data", clip))
    /\ UNCHANGED <<texts, clipAndroid, connC, clipServer, crossed, unheard,
                   cuts>>

(* setClipboardText() *)
SetClipboardText ==
    /\ toActivity # <<>> /\ Type(Head(toActivity)) = "data"
    /\ toActivity' = Tail(toActivity)
    /\ clip' = Text(Head(toActivity))
    /\ unannounced' = FALSE /\ recent' = TRUE
    /\ crossed' = (crossed \/ owner = "server" \/ unannounced
                           \/ InFlight(works, "announce")
                           \/ InFlight(toX, "announce"))
    /\ UNCHANGED <<texts, connC, toX, clipServer, unheard, cuts>>

-----------------------------------------------------------------------------
(* The X server. *)

(* handleLorieEvents(), on the input thread: lorieEnableClipboardSync() is *)
(* called at once, the rest queued for the main thread.                    *)
HandleEnable ==
    /\ toX # <<>> /\ Type(Head(toX)) = "enable"
    /\ toX' = Tail(toX)
    /\ clipboardEnabled' = TRUE
    /\ UNCHANGED <<texts, clipAndroid, connC, toActivity, works, cachedData,
                   owner, xText, asked, pending, crossed, unheard, cuts>>

QueueWork ==
    /\ toX # <<>> /\ Type(Head(toX)) # "enable"
    /\ toX' = Tail(toX) /\ works' = Append(works, Head(toX))
    /\ UNCHANGED <<texts, clipAndroid, connC, toActivity, clipboardEnabled,
                   cachedData, owner, xText, asked, pending, crossed, unheard,
                   cuts>>

(* Mutant of HandleAnnounce: the cache is kept. *)
HandleAnnounceCached ==
    /\ works # <<>> /\ Type(Head(works)) = "announce"
    /\ works' = Tail(works)
    /\ owner' = "server"
    /\ UNCHANGED <<texts, clipAndroid, connC, toX, toActivity,
                   clipboardEnabled, cachedData, xText, asked, pending,
                   crossed, unheard, cuts>>

(* lorieHandleClipboardAnnounce(), lorieOwnSelection() *)
HandleAnnounce ==
    /\ works # <<>> /\ Type(Head(works)) = "announce"
    /\ works' = Tail(works)
    /\ cachedData' = NoText
    /\ owner' = "server"
    /\ UNCHANGED <<texts, clipAndroid, connC, toX, toActivity,
                   clipboardEnabled, xText, asked, pending, crossed, unheard,
                   cuts>>

(* lorieHandleClipboardData(): every requestor that waits has its answer. *)
HandleData ==
    /\ works # <<>> /\ Type(Head(works)) = "data"
    /\ works' = Tail(works)
    /\ cachedData' = Text(Head(works))
    /\ pending' = {} /\ unheard' = {}
    /\ UNCHANGED <<texts, clipAndroid, connC, toX, toActivity,
                   clipboardEnabled, owner, xText, asked, crossed, cuts>>

(* lorieProcConvertSelection() of the server's selection: answered at once *)
(* with cachedData, or put on the list.                                    *)
ConvertSelection(c) ==
    /\ owner = "server" /\ c \notin pending /\ cachedData = NoText
    /\ pending' = pending \union {c}
    /\ unheard' = IF connC THEN unheard ELSE unheard \union {c}
    /\ toActivity' = IF connC
                     THEN Append(toActivity, ClipMsg("request", NoText))
                     ELSE toActivity
    /\ UNCHANGED <<texts, clipAndroid, connC, toX, works, clipboardEnabled,
                   cachedData, owner, xText, asked, crossed, cuts>>

(* An X client becomes the owner; lorieSelectionCallback() asks it for     *)
(* its targets.                                                            *)
SetSelectionOwner ==
    /\ texts < MaxTexts
    /\ texts' = texts + 1 /\ xText' = texts + 1
    /\ owner' = "client"
    /\ asked' = IF clipboardEnabled THEN "targets" ELSE asked
    /\ UNCHANGED <<clipAndroid, connC, toX, toActivity, works,
                   clipboardEnabled, cachedData, pending, crossed, unheard,
                   cuts>>

(* lorieProcSendEvent() and lorieHandleSelection(): the client's targets,  *)
(* after which the text is asked from whoever owns the selection by now,   *)
SendTargets ==
    /\ asked = "targets"
    /\ asked' = IF clipboardEnabled /\ owner = "client" THEN "text" ELSE "no"
    /\ UNCHANGED <<texts, clipAndroid, connC, toX, toActivity, works,
                   clipboardEnabled, cachedData, owner, xText, pending,
                   crossed, unheard, cuts>>

(* and its text, for Android. *)
SendText ==
    /\ asked = "text"
    /\ asked' = "no"
    /\ toActivity' = IF clipboardEnabled /\ connC
                     THEN Append(toActivity, ClipMsg("data", xText))
                     ELSE toActivity
    /\ UNCHANGED <<texts, clipAndroid, connC, toX, works, clipboardEnabled,
                   cachedData, owner, xText, pending, crossed, unheard, cuts>>

-----------------------------------------------------------------------------
ClipDelivers ==
    \/ RequestClipboard \/ SetClipboardText
    \/ HandleEnable \/ QueueWork \/ HandleAnnounce \/ HandleData

ClipNext ==
    \/ ConnectC \/ Cut
    \/ AndroidCopy \/ Later \/ Announce
    \/ \E c \in Requestors : ConvertSelection(c)
    \/ SetSelectionOwner \/ SendTargets \/ SendText
    \/ ClipDelivers

ClipSpec == ClipInit /\ [][ClipNext]_clipVars

-----------------------------------------------------------------------------
(* Properties. *)

Messages == {"enable", "announce", "request", "data"} \X Nat

(* Every variable has the values its declaration says. *)
ClipTypeOK ==
    /\ texts \in Nat /\ clip \in Nat /\ cachedData \in Nat /\ xText \in Nat
    /\ toX \in Seq(Messages) /\ toActivity \in Seq(Messages)
    /\ works \in Seq(Messages)
    /\ owner \in {"none", "server", "client"}
    /\ unheard \subseteq pending /\ pending \subseteq Requestors
    /\ toX # <<>> \/ toActivity # <<>> \/ clipboardEnabled => connC

(* Nothing is on its way. *)
Settled ==
    /\ ~unannounced /\ asked = "no"
    /\ \A q \in {toX, works, toActivity}, t \in {"announce", "data"} :
           ~InFlight(q, t)

(* What a paste in X gives from the cache is what Android's clipboard has, *)
(* once things have settled, unless an announcement was lost or the two    *)
(* sides have copied at the same time.                                     *)
SameText ==
    Settled /\ owner = "server" /\ cachedData # NoText /\ ~crossed
        => cachedData = clip

(* A paste in X is answered, unless its request or the answer was lost     *)
(* with a connection.                                                      *)
PasteAnswered ==
    \A c \in Requestors : []<>(c \notin pending \/ c \in unheard)
=============================================================================
