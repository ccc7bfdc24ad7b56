------------------------------ MODULE Pipeline ------------------------------
(***************************************************************************)
(* One run of a pipeline: a transcription, a language model and an image,  *)
(* each a goroutine, joined by pipes and by a bounded channel of events    *)
(* that a reader broadcasts.  The transcriber and the model answer over    *)
(* streams of two nodes, which may break or fall silent at any point.  A   *)
(* pipe passes a write to a reader that is reading, and ends when its      *)
(* writer has returned, well or badly.  Left out: the audio's bytes, the   *)
(* headers, the contents of the answers.                                   *)
(*                                                                         *)
(* Source: internal/pipeline.                                              *)
(***************************************************************************)
EXTENDS Naturals, Sequences

CONSTANTS
    Chunks,     \* answers of the transcriber and of the model
    Capacity    \* of the channel of events (64)

PipelineAssumption == Chunks \in Nat \ {0} /\ Capacity \in Nat \ {0}

VARIABLES
    audio,      \* the upload: "copy", then "whole" or, as the source failed, "cut"
    step,       \* per step: pc, failed
    server,     \* per step with a stream: what the other side does, answers it gave
    heard,      \* answers of the transcriber that the second step has read
    tokens,     \* answers of the model that it has read
    prompt,     \* tokens in the prompt that the third step has read
    channel,    \* events not yet broadcast: <<step, status>>
    shown,      \* events broadcast
    run         \* Run: "resolve", "wait", "over"; the channel is closed when it is over

vars == <<audio, step, server, heard, tokens, prompt, channel, shown, run>>

Transcribe == 1
Prompt == 2
Image == 3
Step == {Transcribe, Prompt, Image}

Init ==
    /\ audio = "none" /\ run = "resolve"
    /\ step = [s \in Step |-> [pc |-> "off", failed |-> FALSE]]
    /\ server = [s \in {Transcribe, Prompt} |-> [pc |-> "off", said |-> 0]]
    /\ heard = 0 /\ tokens = 0 /\ prompt = 0
    /\ channel = <<>> /\ shown = <<>>

Over(s) == step[s].pc = "over"
Goes(s, pc) == step' = [step EXCEPT ![s].pc = pc]
Fails(s) == step' = [step EXCEPT ![s] = [pc |-> "over", failed |-> TRUE]]

-----------------------------------------------------------------------------
(* The run.                                                                   *)

\* A step has no node that is online: the run ends before it starts.
Unresolved ==
    /\ run = "resolve" /\ run' = "over"
    /\ UNCHANGED <<audio, step, server, heard, tokens, prompt, channel, shown>>

Run ==
    /\ run = "resolve" /\ run' = "wait" /\ audio' = "copy"
    /\ step' = [s \in Step |->
                 [step[s] EXCEPT !.pc = IF s = Transcribe THEN "dial" ELSE "gather"]]
    /\ UNCHANGED <<server, heard, tokens, prompt, channel, shown>>

\* wg.Wait: the errors of the steps are logged and Run returns nil.
RunReturns ==
    /\ run = "wait" /\ \A s \in Step : Over(s) /\ run' = "over"
    /\ UNCHANGED <<audio, step, server, heard, tokens, prompt, channel, shown>>

Broadcast ==
    /\ channel # <<>>
    /\ shown' = Append(shown, Head(channel)) /\ channel' = Tail(channel)
    /\ UNCHANGED <<audio, step, server, heard, tokens, prompt, run>>

\* An event is sent when the channel has room.
Send(s, status) ==
    /\ Len(channel) < Capacity
    /\ channel' = Append(channel, <<s, status>>)

CopyEnds ==
    /\ audio = "copy" /\ audio' \in {"whole", "cut"}
    /\ UNCHANGED <<step, server, heard, tokens, prompt, channel, shown, run>>

-----------------------------------------------------------------------------
(* The streams.                                                               *)

\* A stream to the node of a step is opened within its timeout, or the step fails.  The
\* transcriber then listens; the model has its request.
Dial(s) ==
    /\ step[s].pc = "dial"
    /\ \/ /\ Goes(s, "read")
          /\ server' = [server EXCEPT ![s].pc = IF s = Transcribe THEN "listen" ELSE "speak"]
       \/ Fails(s) /\ UNCHANGED server
    /\ UNCHANGED <<audio, heard, tokens, prompt, channel, shown, run>>

\* handleAudioStream takes what it has when the audio ends, whole or not.
Listened ==
    /\ server[Transcribe].pc = "listen" /\ audio \in {"whole", "cut"}
    /\ server' = [server EXCEPT ![Transcribe].pc = "speak"]
    /\ UNCHANGED <<audio, step, heard, tokens, prompt, channel, shown, run>>

\* The other side closes its stream when it has said everything.
Closes(s) ==
    /\ server[s].pc = "speak" /\ server[s].said = Chunks
    /\ server' = [server EXCEPT ![s].pc = "closed"]
    /\ UNCHANGED <<audio, step, heard, tokens, prompt, channel, shown, run>>

\* A stream breaks, or brings an error instead of an answer; it is read without a deadline,
\* and a silent one is read for ever.
Breaks(s) ==
    /\ server[s].pc \in {"listen", "speak"}
    /\ server' = [server EXCEPT ![s].pc = "broken"]
    /\ UNCHANGED <<audio, step, heard, tokens, prompt, channel, shown, run>>

BrokenStream(s) ==
    /\ step[s].pc = "read" /\ server[s].pc = "broken"
    /\ Fails(s)
    /\ UNCHANGED <<audio, server, heard, tokens, prompt, channel, shown, run>>

-----------------------------------------------------------------------------
(* streamAudioToText                                                          *)

\* An answer goes through the pipe to the second step, and then to the channel.
HearChunk ==
    /\ step[Transcribe].pc = "read" /\ server[Transcribe].pc = "speak"
    /\ server[Transcribe].said < Chunks
    /\ step[Prompt].pc = "gather"
    /\ server' = [server EXCEPT ![Transcribe].said = @ + 1]
    /\ heard' = heard + 1
    /\ Goes(Transcribe, "event")
    /\ UNCHANGED <<audio, tokens, prompt, channel, shown, run>>

Streamed(s) ==
    /\ step[s].pc = "event"
    /\ Send(s, "streaming") /\ Goes(s, IF s = Image THEN "image" ELSE "read")
    /\ UNCHANGED <<audio, server, heard, tokens, prompt, shown, run>>

Heard ==
    /\ step[Transcribe].pc = "read" /\ server[Transcribe].pc = "closed"
    /\ Goes(Transcribe, "complete")
    /\ UNCHANGED <<audio, server, heard, tokens, prompt, channel, shown, run>>

\* The last event comes before the step returns and its pipe is closed.
Complete(s) ==
    /\ step[s].pc = "complete"
    /\ Send(s, "completed") /\ Goes(s, "over")
    /\ UNCHANGED <<audio, server, heard, tokens, prompt, shown, run>>

-----------------------------------------------------------------------------
(* streamTextToLLM                                                            *)

\* The transcript is what there is when the first step has returned.
Gathered ==
    /\ step[Prompt].pc = "gather" /\ Over(Transcribe)
    /\ IF heard = 0 THEN Fails(Prompt) ELSE Goes(Prompt, "dial")
    /\ UNCHANGED <<audio, server, heard, tokens, prompt, channel, shown, run>>

\* Fault: each token goes to the third step as it comes.
ReadTokenForwards ==
    /\ step[Prompt].pc = "read" /\ server[Prompt].pc = "speak" /\ server[Prompt].said < Chunks
    /\ server' = [server EXCEPT ![Prompt].said = @ + 1]
    /\ tokens' = tokens + 1 /\ prompt' = prompt + 1
    /\ Goes(Prompt, "event")
    /\ UNCHANGED <<audio, heard, channel, shown, run>>

ReadToken ==
    /\ step[Prompt].pc = "read" /\ server[Prompt].pc = "speak" /\ server[Prompt].said < Chunks
    /\ server' = [server EXCEPT ![Prompt].said = @ + 1]
    /\ tokens' = tokens + 1
    /\ Goes(Prompt, "event")
    /\ UNCHANGED <<audio, heard, prompt, channel, shown, run>>

\* The whole prompt goes through the pipe at once, before the event that completes it.
WritePrompt ==
    /\ step[Prompt].pc = "read" /\ server[Prompt].pc = "closed"
    /\ prompt' = tokens
    /\ Goes(Prompt, "complete")
    /\ UNCHANGED <<audio, server, heard, tokens, channel, shown, run>>

-----------------------------------------------------------------------------
(* streamLLMToImage                                                           *)

GatherPrompt ==
    /\ step[Image].pc = "gather" /\ Over(Prompt)
    /\ IF prompt = 0 THEN Fails(Image) ELSE Goes(Image, "event")
    /\ UNCHANGED <<audio, server, heard, tokens, prompt, channel, shown, run>>

Generate ==
    /\ step[Image].pc = "image" /\ Goes(Image, "complete")
    /\ UNCHANGED <<audio, server, heard, tokens, prompt, channel, shown, run>>

-----------------------------------------------------------------------------
Next ==
    \/ Unresolved \/ Run \/ RunReturns \/ Broadcast \/ CopyEnds
    \/ Listened
    \/ HearChunk \/ Heard \/ Gathered \/ ReadToken \/ WritePrompt \/ GatherPrompt \/ Generate
    \/ \E s \in Step : Streamed(s) \/ Complete(s)
    \/ \E s \in {Transcribe, Prompt} : Dial(s) \/ Closes(s) \/ Breaks(s) \/ BrokenStream(s)

Spec == Init /\ [][Next]_vars

-----------------------------------------------------------------------------
PC == {"off", "dial", "gather", "read", "event", "image", "complete", "over"}
Status == {"streaming", "completed"}
TypeOK ==
    /\ audio \in {"none", "copy", "whole", "cut"} /\ run \in {"resolve", "wait", "over"}
    /\ step \in [Step -> [pc : PC, failed : BOOLEAN]]
    /\ server \in [{Transcribe, Prompt} ->
                     [pc : {"off", "listen", "speak", "closed", "broken"}, said : 0 .. Chunks]]
    /\ heard \in 0 .. Chunks /\ tokens \in 0 .. Chunks /\ prompt \in 0 .. Chunks
    /\ channel \in Seq(Step \X Status) /\ Len(channel) <= Capacity
    /\ shown \in Seq(Step \X Status)

Events == shown \o channel

\* An image is made of the whole answer of the model, or not at all: its first event comes
\* after the one that completes the prompt (pipeline.go:335).
ImageOfWholePrompt ==
    \A k \in DOMAIN Events : Events[k][1] = Image =>
        /\ prompt = Chunks
        /\ \E j \in 1 .. k - 1 : Events[j] = <<Prompt, "completed">>

\* Steps that read a broken transcript still complete; not an invariant (pipeline.go:128).
CompletedIsOfWholeAudio ==
    <<Image, "completed">> \in {Events[k] : k \in DOMAIN Events} =>
        audio = "whole" /\ heard = Chunks
====
