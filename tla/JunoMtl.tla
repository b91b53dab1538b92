-------------------------------- MODULE JunoMtl -------------------------------
(*****************************************************************************)
(* The mailbox transport of the Juno board (ArmJunoMtlLib.c): the firmware   *)
(* writes a message into a channel's mailbox, marks the channel busy and     *)
(* rings its doorbell; the system control processor (SCP) answers in the     *)
(* same mailbox and frees the channel.  The firmware polls for a bounded     *)
(* time, the SCP answers in its own time.                                    *)
(*                                                                           *)
(* A message is identified by its header, numbered in the order of sending.  *)
(*****************************************************************************)
EXTENDS Integers

CONSTANTS
  MtlChannels,      \* the channel types asked for, known or not
  ResponseTimeOut,  \* RESPONSE_TIMEOUT
  PollWaitTime,     \* MTL_POLL_WAIT_TIME
  MaxMessages       \* bound on the messages of a run

Supported == {"LOW", "HIGH"}
NoMessage == 0

ASSUME MtlAssumption ==
  /\ Supported \subseteq MtlChannels
  /\ ResponseTimeOut \in Nat /\ PollWaitTime \in Nat \ {0} /\ MaxMessages \in Nat \ {0}

VARIABLES
  mtlBox,     \* the mailboxes: status, header and length (header's own included)
  mtlBell,    \* the doorbells rung and not seen by the SCP
  mtlScp,     \* the message the SCP works on, per channel
  mtlPc,      \* the client's step
  mtlChannel, \* the channel it uses
  mtlTime,    \* what is left of the time-out
  mtlSent,    \* the number of messages sent so far
  mtlGot      \* the last answer handed to the client, and whose it was to be

mtlVars == <<mtlBox, mtlBell, mtlScp, mtlPc, mtlChannel, mtlTime, mtlSent, mtlGot>>

HeaderSize == 4

\* Each channel has its own mailbox and doorbell.
Channels == [c \in Supported |-> [status |-> "FREE", header |-> NoMessage, length |-> HeaderSize]]

MtlInit ==
  /\ mtlBox = Channels
  /\ mtlBell = {} /\ mtlScp = [c \in Supported |-> NoMessage]
  /\ mtlPc = "idle" /\ mtlChannel = "LOW" /\ mtlTime = 0 /\ mtlSent = 0
  /\ mtlGot = [answer |-> NoMessage, wanted |-> NoMessage]

\* MtlGetChannel: a channel of an unknown type is unsupported.  The client waits
\* for the channel to be free before it fills in the payload.
MtlGetChannel(c) ==
  /\ mtlPc = "idle" /\ mtlSent < MaxMessages
  /\ c \in Supported
  /\ mtlChannel' = c /\ mtlTime' = ResponseTimeOut /\ mtlPc' = "waitFree"
  /\ UNCHANGED <<mtlBox, mtlBell, mtlScp, mtlSent, mtlGot>>

IsFree == mtlBox[mtlChannel].status = "FREE"

\* MtlWaitUntilChannelFree, one turn of its loop: free, or stall and count down.
\* A rest shorter than the poll time is stalled once.
MtlPoll ==
  /\ mtlPc \in {"waitFree", "receive"} /\ ~IsFree /\ mtlTime # 0
  /\ mtlTime' = IF mtlTime < PollWaitTime THEN 0 ELSE mtlTime - PollWaitTime
  /\ UNCHANGED <<mtlBox, mtlBell, mtlScp, mtlPc, mtlChannel, mtlSent, mtlGot>>

\* The last look, after the time has run out, still finds an answer.
MtlWaitUntilChannelFree ==
  /\ mtlPc \in {"waitFree", "receive"} /\ (IsFree \/ mtlTime = 0)
  /\ mtlPc' = CASE ~IsFree            -> "idle"
                [] mtlPc = "waitFree" -> "send"
                [] OTHER              -> "answer"
  /\ UNCHANGED <<mtlBox, mtlBell, mtlScp, mtlChannel, mtlTime, mtlSent, mtlGot>>

\* A client that does not wait first is refused while the channel is busy.
SkipWait ==
  /\ mtlPc = "waitFree" /\ mtlPc' = "send"
  /\ UNCHANGED <<mtlBox, mtlBell, mtlScp, mtlChannel, mtlTime, mtlSent, mtlGot>>

\* Faulty variant: a busy channel is used.
MtlSendUnchecked(length) ==
  /\ mtlPc = "send"
  /\ mtlBox' = [mtlBox EXCEPT ![mtlChannel] =
                  [status |-> "BUSY", header |-> mtlSent + 1, length |-> length + HeaderSize]]
  /\ mtlSent' = mtlSent + 1 /\ mtlPc' = "ring"
  /\ UNCHANGED <<mtlBell, mtlScp, mtlChannel, mtlTime, mtlGot>>

\* MtlSendMessage up to the doorbell: the channel is marked busy first.
MtlSendMessage(length) ==
  /\ mtlPc = "send"
  /\ IF IsFree
     THEN /\ mtlBox' = [mtlBox EXCEPT ![mtlChannel] =
                          [status |-> "BUSY", header |-> mtlSent + 1, length |-> length + HeaderSize]]
          /\ mtlSent' = mtlSent + 1 /\ mtlPc' = "ring"
     ELSE mtlPc' = "idle" /\ UNCHANGED <<mtlBox, mtlSent>>
  /\ UNCHANGED <<mtlBell, mtlScp, mtlChannel, mtlTime, mtlGot>>

\* Its end: the doorbell rings, and MtlReceiveMessage starts to wait.
RingDoorBell ==
  /\ mtlPc = "ring"
  /\ mtlBell' = mtlBell \cup {mtlChannel}
  /\ mtlTime' = ResponseTimeOut /\ mtlPc' = "receive"
  /\ UNCHANGED <<mtlBox, mtlScp, mtlChannel, mtlSent, mtlGot>>

\* The rest of MtlReceiveMessage: header and payload are taken from the mailbox.
MtlReceiveMessage ==
  /\ mtlPc = "answer"
  /\ mtlGot' = [answer |-> mtlBox[mtlChannel].header, wanted |-> mtlSent]
  /\ mtlPc' = "idle"
  /\ UNCHANGED <<mtlBox, mtlBell, mtlScp, mtlChannel, mtlTime, mtlSent>>

\* External: the SCP sees a doorbell and reads the message.
ScpTakes(c) ==
  /\ c \in mtlBell /\ mtlScp[c] = NoMessage
  /\ mtlBell' = mtlBell \ {c}
  /\ mtlScp' = [mtlScp EXCEPT ![c] = mtlBox[c].header]
  /\ UNCHANGED <<mtlBox, mtlPc, mtlChannel, mtlTime, mtlSent, mtlGot>>

\* External: it answers, and frees the channel.
ScpAnswers(c, length) ==
  /\ mtlScp[c] # NoMessage
  /\ mtlBox' = [mtlBox EXCEPT ![c] = [status |-> "FREE", header |-> mtlScp[c],
                                      length |-> length + HeaderSize]]
  /\ mtlScp' = [mtlScp EXCEPT ![c] = NoMessage]
  /\ UNCHANGED <<mtlBell, mtlPc, mtlChannel, mtlTime, mtlSent, mtlGot>>

MtlNext ==
  \/ \E c \in MtlChannels : MtlGetChannel(c)
  \/ MtlPoll \/ MtlWaitUntilChannelFree \/ SkipWait \/ RingDoorBell \/ MtlReceiveMessage
  \/ \E n \in {0, HeaderSize} : MtlSendMessage(n)
  \/ \E c \in Supported, n \in {0, HeaderSize} : ScpTakes(c) \/ ScpAnswers(c, n)

MtlSpec == MtlInit /\ [][MtlNext]_mtlVars

-------------------------------------------------------------------------------
\* MtlReceiveMessage: "If channel is free after sending message, it implies SCP
\* responded".  However late the SCP answered the messages before, what the
\* client is given is the answer to the message it sent last, even when the
\* other channel, or a message that timed out, is still being worked on.
MtlOwnAnswer == mtlGot.answer = mtlGot.wanted
===============================================================================
