------------------------------ MODULE MCDesktop ------------------------------
(***************************************************************************)
(* The parts of the desktop side by side for TLC: the realtime session,    *)
(* with audio, or with messages of the user; the capture of the            *)
(* microphone, with audio and a pause, with a pause and a resume, or with  *)
(* a second meeting; and the hosted sign-in.  They do not share state in   *)
(* the models, so that a behaviour moves one of them; at their initial     *)
(* states no fair action of the others is enabled.                         *)
(***************************************************************************)
EXTENDS DesktopSession, MicrophoneCapture, HostedSignIn

VARIABLE part  \* the part that moves

desktopVars == <<part, vars, micVars, signInVars>>

\* No DeviceFails.
DeviceWorks == stream'.failed => stream.failed \/ callback.next = "enqueue"

Silent == callback'.next = "idle"

DesktopInit ==
  /\ Init /\ MicInit /\ SignInInit
  /\ part \in {"audio", "messages", "capture", "resume", "restart", "sign-in"}
  /\ part # "sign-in" => ~rotates

DesktopNext ==
  \/ /\ UNCHANGED <<part, micVars, signInVars>>
     /\ \/ part = "audio" /\ (Exchange \/ SendAudioChunk \/ SendAudioGap)
        \/ part = "messages" /\ Next /\ captured' <= 1
  \/ part = "sign-in" /\ SignInNext /\ UNCHANGED <<part, vars, micVars>>
  \/ /\ MicNext /\ UNCHANGED <<part, vars, signInVars>>
     /\ \/ part = "capture" /\ starts' <= 1 /\ presses' <= 1 /\ DeviceWorks
        \/ part = "resume" /\ starts' <= 1 /\ Silent
        \/ part = "restart" /\ presses' <= 1 /\ Silent

DesktopSpec ==
  DesktopInit /\ [][DesktopNext]_desktopVars /\ Fairness /\ MicFairness /\ SignInFairness

\* Every variable of every part is in its range (see TypeOK, MicTypeOK and SignInTypeOK).
PartsTypeOK == TypeOK /\ MicTypeOK /\ SignInTypeOK
=============================================================================
