--------------------------- MODULE OrpheusTokens ---------------------------
(***************************************************************************)
(* _OrpheusInProcess.synthesize of backends/orpheus.py, in the child of    *)
(* the orpheus backend: the reference is turned into tokens, seven to a    *)
(* frame, and put into the prompt; a language model continues it; and the  *)
(* continuation is turned back into the three streams of codes that SNAC   *)
(* decodes.                                                                *)
(*                                                                         *)
(* Abstraction.  The codes of a stream are 0, 1, 2 and so on, so that any  *)
(* other place of a code shows.  The language model may say anything: it   *)
(* is taken to speak the frames of a speech in turn, with tokens that are  *)
(* no codes anywhere among theirs, some of theirs left out, and an end     *)
(* anywhere.  A text is one token.                                         *)
(***************************************************************************)
EXTENDS Integers, SequencesExt

CONSTANTS
    MaxFrames,  \* bound on the frames of a reference and of a speech, for TLC
    MaxStray,   \* bound on the tokens that are no codes, for TLC
    MaxLost     \* bound on the tokens left out, for TLC

ASSUME OrpheusAssumption ==
    MaxFrames \in Nat \ {0} /\ MaxStray \in Nat /\ MaxLost \in Nat

VARIABLES
    meant,    \* the codes the model has in mind, as three streams
    output,   \* output[0]: the prompt and its continuation
    prompt,   \* the length of the prompt, input_ids.shape[1]
    next,     \* the place of the next token of the speech
    strays,   \* tokens between them that are no codes
    lost,     \* the places of those left out
    done,     \* generate has returned
    heard     \* the codes given to SNAC.decode

orpheusVars == <<meant, output, prompt, next, strays, lost, done, heard>>

Slots   == 7              \* AUDIO_TOKENS_PER_FRAME
Size    == 4 * MaxFrames  \* AUDIO_CODEBOOK_SIZE: a code is below it
Offset  == 10             \* AUDIO_TOKEN_OFFSET: marks and text are below it
HUMAN   == 1              \* START_OF_HUMAN_ID
ENDTEXT == <<2, 3, 4, 5>> \* END_TEXT_IDS
STOPPED == 6              \* STOP_TOKEN_IDS
TEXT    == 0              \* a token of text

Silent == <<<<>>, <<>>, <<>>>>

(* The three streams of n frames.                                          *)
Codes(n) ==
    [stream \in 1 .. 3 |-> [i \in 1 .. <<1, 2, 4>>[stream] * n |-> i - 1]]

Token(slot, value) == Offset + slot * Size + value

(* Faulty variant: the slots of a frame are taken stream by stream.        *)
SlotValuesByStream(codes, j) ==
    <<codes[1][j + 1], codes[2][2 * j + 1], codes[2][2 * j + 2], codes[3][4 * j + 1],
      codes[3][4 * j + 2], codes[3][4 * j + 3], codes[3][4 * j + 4]>>

(* The values of the seven slots of frame j, counted from 0.               *)
SlotValues(codes, j) ==
    <<codes[1][j + 1], codes[2][2 * j + 1], codes[3][4 * j + 1], codes[3][4 * j + 2],
      codes[2][2 * j + 2], codes[3][4 * j + 3], codes[3][4 * j + 4]>>

InterleaveCodes(codes) ==
    [i \in 1 .. Slots * Len(codes[1]) |->
       LET slot == (i - 1) % Slots IN
       Token(slot, SlotValues(codes, (i - 1) \div Slots)[slot + 1])]

(* _build_cloning_prompt.                                                  *)
Prompt(refTokens) ==
    <<HUMAN, TEXT>> \o ENDTEXT \o refTokens \o <<HUMAN, TEXT>> \o ENDTEXT

OrpheusInit ==
    /\ \E n, ref \in 1 .. MaxFrames :
         /\ meant = Codes(n)
         /\ output = Prompt(InterleaveCodes(Codes(ref)))
         /\ prompt = Len(Prompt(InterleaveCodes(Codes(ref))))
    /\ next = 1 /\ strays = 0 /\ lost = {} /\ done = FALSE /\ heard = Silent

-----------------------------------------------------------------------------
(* generate.                                                               *)

Spoken == InterleaveCodes(meant)

Say(token) ==
    /\ output' = Append(output, token)
    /\ UNCHANGED <<meant, prompt, done, heard>>

Speak ==
    /\ ~done /\ next <= Len(Spoken)
    /\ Say(Spoken[next])
    /\ next' = next + 1
    /\ UNCHANGED <<strays, lost>>

Stray ==
    /\ ~done /\ strays < MaxStray
    /\ \E token \in {TEXT, Offset + Slots * Size} : Say(token)
    /\ strays' = strays + 1
    /\ UNCHANGED <<next, lost>>

Lose ==
    /\ ~done /\ next <= Len(Spoken) /\ Cardinality(lost) < MaxLost
    /\ lost' = lost \cup {next}
    /\ next' = next + 1
    /\ UNCHANGED <<meant, output, prompt, strays, done, heard>>

-----------------------------------------------------------------------------
(* _decode_audio_tokens.                                                   *)

IsAudio(token) == Offset <= token /\ token < Offset + Slots * Size

(* The values of a frame of tokens, each by the range of its slot.         *)
Values(frame) == [slot \in 1 .. Slots |-> frame[slot] - Offset - (slot - 1) * Size]

(* A frame with a token outside its slot is skipped.                       *)
WholeFrame(values) == \A slot \in 1 .. Slots : values[slot] \in 0 .. Size - 1

(* The reverse of SlotValues.                                              *)
Scatter(codes, v) ==
    <<codes[1] \o <<v[1]>>, codes[2] \o <<v[2], v[5]>>, codes[3] \o <<v[3], v[4], v[6], v[7]>>>>

(* The tokens that are codes, in their order.                              *)
Audio[ids \in Seq(Nat)] ==
    IF ids = <<>> THEN <<>> ELSE
    IF IsAudio(Last(ids)) THEN Append(Audio[Front(ids)], Last(ids)) ELSE Audio[Front(ids)]

Frame(audio, j) == SubSeq(audio, (j - 1) * Slots + 1, j * Slots)

(* The loop over the frames: codes[j] is what j of them have given.        *)
Scattered(audio) ==
    LET codes[j \in 0 .. Len(audio) \div Slots] ==
          IF j = 0 THEN Silent ELSE
          IF WholeFrame(Values(Frame(audio, j)))
            THEN Scatter(codes[j - 1], Values(Frame(audio, j)))
            ELSE codes[j - 1]
    IN  codes[Len(audio) \div Slots]

Decode(ids) == Scattered(Audio[ids])

(* generate returns, at max_new_tokens or with the token that stops it;    *)
(* what follows the prompt is decoded.                                     *)
Return ==
    /\ ~done
    /\ done' = TRUE
    /\ \E end \in {<<>>, <<STOPPED>>} :
         /\ output' = output \o end
         /\ heard' = Decode(SubSeq(output', prompt + 1, Len(output')))
    /\ UNCHANGED <<meant, prompt, next, strays, lost>>

OrpheusNext == Speak \/ Stray \/ Lose \/ Return

OrpheusSpec == OrpheusInit /\ [][OrpheusNext]_orpheusVars

-----------------------------------------------------------------------------
(* Properties.                                                             *)

(* The frames before the first one that lost a token.                      *)
Unharmed ==
    LET upTo == IF lost = {} THEN next - 1 ELSE Min(lost) - 1
    IN upTo \div Slots

(* What SNAC is given are the codes of the speech, not of the reference:   *)
(* all whole frames up to the first token the model left out, whatever     *)
(* else it said between them and wherever it stopped.  A frame that lacks  *)
(* a token puts those after it out of step, and they are skipped; were     *)
(* they not, a frame would be a mixture of two.                            *)
HeardIsTheSpeech ==
    done /\ Cardinality(lost) < Slots => heard = Codes(Unharmed)
=============================================================================
