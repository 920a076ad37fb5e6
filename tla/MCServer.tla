------------------------------ MODULE MCServer ------------------------------
(***************************************************************************)
(* What a server keeps and works on: its calls (Serving, as in MCServing), *)
(* the registry of voices (VoiceStore), and the three places where a       *)
(* stream is cut into pieces and put together again: text into sentences   *)
(* (SentenceBuffer), the columns of the higgs model into chunks of sound   *)
(* (HiggsStream), and the tokens of the orpheus model into frames          *)
(* (OrpheusTokens).  They share nothing here, so a behaviour is one of one *)
(* of them, the others staying as they began.                              *)
(*                                                                         *)
(* The registry: any two jobs, of the server or of other processes, on two *)
(* voices.                                                                 *)
(*                                                                         *)
(* Texts have at most eight characters, in pieces of at most three: enough *)
(* for three sentences, runs of stops and of blanks, and for every way to  *)
(* cut a boundary in two.  The higgs chunks are two frames first and three *)
(* afterwards, for speeches that end before, at and after the end of each  *)
(* of the first three.  An orpheus speech of three frames that loses two   *)
(* tokens has frames before, between and after the losses.                 *)
(***************************************************************************)
EXTENDS MCServing, VoiceStore, SentenceBuffer, HiggsStream, OrpheusTokens

VARIABLE machine

serverVars == <<machine, servingVars, storeVars, textVars, higgsVars, orpheusVars>>

HiggsIdle   == speech = 0
OrpheusIdle == meant = Codes(1) /\ output = Prompt(InterleaveCodes(Codes(1)))

ServerInit ==
    /\ machine \in {"calls", "store", "text", "higgs", "orpheus"}
    /\ ServingInit /\ (machine # "calls" => NothingAsked)
    /\ StoreInit /\ (machine # "store" => dirs = {})
    /\ TextInit
    /\ HiggsInit /\ (machine # "higgs" => HiggsIdle)
    /\ OrpheusInit /\ (machine # "orpheus" => OrpheusIdle)

ServerNext ==
    /\ UNCHANGED machine
    /\ \/ machine = "calls" /\ ServingNext
          /\ UNCHANGED <<storeVars, textVars, higgsVars, orpheusVars>>
       \/ machine = "store" /\ StoreNext
          /\ UNCHANGED <<servingVars, textVars, higgsVars, orpheusVars>>
       \/ machine = "text" /\ TextNext
          /\ UNCHANGED <<servingVars, storeVars, higgsVars, orpheusVars>>
       \/ machine = "higgs" /\ HiggsNext
          /\ UNCHANGED <<servingVars, storeVars, textVars, orpheusVars>>
       \/ machine = "orpheus" /\ OrpheusNext
          /\ UNCHANGED <<servingVars, storeVars, textVars, higgsVars>>

ServerSpec == ServerInit /\ [][ServerNext]_serverVars
=============================================================================
