----------------------------- MODULE WsAudition -----------------------------
(***************************************************************************)
(* A session of WS /v1/tts/stream with its client.  Any client may come,   *)
(* which is WsSession as it stands; or a row of asgard_ws_audition.py,     *)
(* which sends a text in bursts from one task, while another receives the  *)
(* frames, joins the audio and saves it as one WAV file.                   *)
(*                                                                         *)
(* Frames keep their order both ways, and none is lost while the           *)
(* connection lasts; it may be lost at any time, after which a send raises *)
(* or is not noticed to be in vain.  A receive raises when the connection  *)
(* is closed and what came before has been received.                       *)
(***************************************************************************)
EXTENDS WsSession

CONSTANT MaxFrames  \* bound: bursts of one text

ASSUME MaxFramesAssumption == MaxFrames \in Nat \ {0}

VARIABLES
    client,    \* "any", or where the row is
    trickle,   \* the sending task: "off", "sending", "sent", "raised"
    unsent,    \* the bursts that are still to be sent
    arriving,  \* the bursts that are sent, and not yet received
    heard,     \* how many frames of the wire the row has received
    pcm        \* the audio frames the row has received

clientVars == <<client, trickle, unsent, arriving, heard, pcm>>
allVars    == <<vars, clientVars>>

Outcomes == {"ok", "silent", "failed"}

AuditionInit ==
    /\ Init
    /\ client \in {"any", "connecting"}
    /\ trickle = "off" /\ unsent = 0 /\ arriving = 0
    /\ heard = 0 /\ pcm = <<>>

Open == connected /\ phase # "closed"

-----------------------------------------------------------------------------
(* The sending task.                                                       *)

Trickle ==
    /\ trickle = "sending" /\ unsent > 0
    /\ unsent' = unsent - 1
    /\ arriving' = IF Open THEN arriving + 1 ELSE arriving
    /\ trickle' = IF unsent = 1 THEN "sent" ELSE "sending"
    /\ UNCHANGED <<vars, client, heard, pcm>>

TrickleRaises ==
    /\ trickle = "sending" /\ ~Open
    /\ trickle' = "raised"
    /\ UNCHANGED <<vars, client, unsent, arriving, heard, pcm>>

(* Faulty variant: "end" is sent only for a text that is empty.            *)
LastBurstPlain == FALSE

(* The burst that is received next is the last one, which says "end".      *)
LastBurst == unsent = 0 /\ arriving = 1

(* The server receives a burst.  The text that is left over will be a      *)
(* sentence, and has to fit in the bound too.                              *)
ReceiveBurst ==
    /\ client # "any" /\ arriving > 0
    /\ arriving' = arriving - 1
    /\ \E n \in 0 .. MaxSentences, rest \in BOOLEAN :
         /\ total + n + (IF rest THEN 1 ELSE 0) <= MaxSentences
         /\ ReceiveText(n, rest, LastBurst)
    /\ UNCHANGED <<client, trickle, unsent, heard, pcm>>

-----------------------------------------------------------------------------
(* The receiving task.                                                     *)

(* The first frame has to be "session"; the sending task starts with it.   *)
Greeted ==
    /\ client = "connecting" /\ heard < Len(wire)
    /\ heard' = heard + 1
    /\ IF wire[heard + 1].event = "session"
       THEN client' = "receiving" /\ trickle' = "sending" /\ unsent' \in 1 .. MaxFrames
       ELSE client' = "raised" /\ UNCHANGED <<trickle, unsent>>
    /\ UNCHANGED <<vars, arriving, pcm>>

(* Faulty variant: the row is complete once a sentence is done and the     *)
(* text is all sent.                                                       *)
ReceiveUntilDone ==
    /\ client = "receiving" /\ heard < Len(wire)
    /\ heard' = heard + 1
    /\ LET f == wire[heard + 1] IN
         /\ pcm' = IF f.event = "audio" THEN Append(pcm, f.idx) ELSE pcm
         /\ client' = CASE f.event = "sentence_done" /\ trickle = "sent" -> "complete"
                        [] f.event = "complete" -> "complete"
                        [] f.event = "error"    -> "raised"
                        [] OTHER                -> "receiving"
    /\ UNCHANGED <<vars, trickle, unsent, arriving>>

(* Audio is kept; "complete" ends the loop, and "error" raises.            *)
Receive ==
    /\ client = "receiving" /\ heard < Len(wire)
    /\ heard' = heard + 1
    /\ LET f == wire[heard + 1] IN
         /\ pcm' = IF f.event = "audio" THEN Append(pcm, f.idx) ELSE pcm
         /\ client' = CASE f.event = "complete" -> "complete"
                        [] f.event = "error"    -> "raised"
                        [] OTHER                -> "receiving"
    /\ UNCHANGED <<vars, trickle, unsent, arriving>>

ReceiveRaises ==
    /\ client \in {"connecting", "receiving"}
    /\ heard = Len(wire) /\ ~Open
    /\ client' = "raised"
    /\ UNCHANGED <<vars, trickle, unsent, arriving, heard, pcm>>

(* The row waits for its sending task, whatever has happened, and leaves.  *)
(* A task that raised makes the row fail; a row without any audio has no   *)
(* time of its first audio to print, which ends the whole program.         *)
EndRow ==
    /\ client \in {"raised", "complete"} /\ trickle # "sending"
    /\ client' = IF client = "raised" \/ trickle = "raised" THEN "failed"
                 ELSE IF pcm = <<>> THEN "silent" ELSE "ok"
    /\ IF Open THEN Disconnect ELSE UNCHANGED vars
    /\ UNCHANGED <<trickle, unsent, arriving, heard, pcm>>

-----------------------------------------------------------------------------
(* What the session does by itself, whoever its client is.                 *)
Serves == Accept \/ Reject \/ Abandon \/ ReceiveDisconnect \/ Consumer \/ Finish

Row == Trickle \/ TrickleRaises \/ Greeted \/ Receive \/ ReceiveRaises \/ EndRow

AuditionNext ==
    \/ client = "any" /\ Next /\ UNCHANGED clientVars
    \/ client # "any" /\ (Serves \/ Disconnect) /\ UNCHANGED clientVars
    \/ ReceiveBurst
    \/ Row

(* Both tasks of the row run when they can, the server receives what has   *)
(* come, and its handshake ends in some way (a backend's load is not       *)
(* waited for without end: _subprocess.py 241, and module SubprocessChild).*)
AuditionFairness ==
    /\ Fairness
    /\ WF_allVars(Trickle) /\ WF_allVars(TrickleRaises)
    /\ WF_allVars(Greeted \/ Receive \/ ReceiveRaises \/ EndRow)
    /\ WF_allVars(ReceiveBurst)
    /\ WF_allVars(client # "any" /\ (Accept \/ Reject \/ Abandon) /\ UNCHANGED clientVars)

AuditionSpec == AuditionInit /\ [][AuditionNext]_allVars /\ AuditionFairness

-----------------------------------------------------------------------------
(* Properties.                                                             *)

(* The WAV file of a row that is reported "ok" is the whole text, every    *)
(* sentence of it once and in order: no loss of the connection, failure on *)
(* either side or frame that comes late is taken for the end of it.        *)
(* (asgard_ws_audition.py 150: "drain audio out, write WAV".)              *)
RowIsTheSpeech ==
    client \in {"ok", "silent"} =>
        /\ ended /\ ~pending
        /\ pcm = [i \in 1 .. total |-> i - 1]

(* Every row ends: neither of its tasks waits for ever for the other, or   *)
(* for a server that waits for it.                                         *)
RowEnds == client = "connecting" ~> client \in Outcomes
=============================================================================
