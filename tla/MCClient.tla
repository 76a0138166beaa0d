------------------------------- MODULE MCClient -------------------------------
(* A client, for TLC: the blocks of a chunk it holds, as the server does             *)
(* (PalettedStore), the application around the game (ClientShell), of the game the   *)
(* screens and the mouse (PlayingFrame), the meshes (ChunkMeshing) and the player's  *)
(* inputs and what comes back (PlayerSync), and signing in and proving it again      *)
(* (SignIn).  They have no state in common here, so one run checks them side by      *)
(* side: `which` says, from the start, which of them runs; the others stay as they   *)
(* are.                                                                              *)
EXTENDS PalettedStore

CONSTANTS
  TickBudget, Expected, MaxAttempts,
  Screens, Defined, MaxOpens,
  MeshCoords, Workers, SubmitBudget, UploadBudget, MaxLoaded, MaxChanges,
  Entities, kMaxCmds, MaxSeq,
  PromptAfter, Prompts, MaxNonce, MaxKeys, MaxFaults,
  None

VARIABLES
  which,
  state, single, sp, remote, client, signIn, ticks, late, uploaded, stalled, hard, played,
  attempts,
  pc, asked, screenName, layout, hud, request, chat, captured, captureWaits, suppress, down, cmd,
  pressedOn, wished, opened, events,
  chunks, gpu, jobs, working, meshed, uploads, waiting, inSync, expected, highest, again,
  changes,
  position, last_seq, input_driven, last_visible, inputs, snapshots, sent, predicted, history,
  shown, seen,
  idp, faults, discovered, keys, fetching, limited, refreshRequested, signingIn, nonce, pending,
  ticket, lastVerdict, s2c, c2s, open, signInPhase, activeNonce, token, cancelled, needsTrust,
  reauth, silent, misses, retry, task, stored, trusted

\* Two chunks over each other, and one at a corner of the upper.
Corner == {<<0, 0>>, <<0, 1>>, <<1, 2>>}

Shell == INSTANCE ClientShell
Screen == INSTANCE PlayingFrame WITH name <- screenName, pending <- captureWaits
Mesh == INSTANCE ChunkMeshing WITH Coords <- MeshCoords, completed <- meshed
\* Both lanes lose and reorder, and hold two messages.
Player == INSTANCE PlayerSync WITH Faults <- {"lose", "reorder"}, MaxLane <- 2, remote <- shown
Account == INSTANCE SignIn
  WITH requested <- refreshRequested, stage <- signingIn, phase <- signInPhase

\* What the proofs about a client take for granted of them.
ASSUME ClientConstants ==
  /\ TickBudget \in Nat \ {0} /\ Expected \in Nat
  /\ None \notin Defined
  /\ MeshCoords \subseteq Int \X Int /\ Workers \in Nat /\ UploadBudget \in Nat \ {0}
  /\ MaxChanges \in Nat
  /\ kMaxCmds \in Nat \ {0} /\ MaxSeq \in Nat
  /\ Account!SignInConstants

shellVars == <<state, single, sp, remote, client, signIn, ticks, late, uploaded, stalled, hard,
               played, attempts>>
screenVars == <<pc, asked, screenName, layout, hud, request, chat, captured, captureWaits,
                suppress, down, cmd, pressedOn, wished, opened, events>>
meshVars == <<chunks, gpu, jobs, working, meshed, uploads, waiting, inSync, expected, highest,
              again, changes>>
playerVars == <<position, last_seq, input_driven, last_visible, inputs, snapshots, sent,
                predicted, history, shown, seen>>
accountVars == <<idp, faults, discovered, keys, fetching, limited, refreshRequested, signingIn,
                 nonce, pending, ticket, lastVerdict, s2c, c2s, open, signInPhase, activeNonce,
                 token, cancelled, needsTrust, reauth, silent, misses, retry, task, stored,
                 trusted>>
allVars == <<which, vars, shellVars, screenVars, meshVars, playerVars, accountVars>>

\* Where a part starts in one of several states, the others' runs take one of them.
RunInit ==
  /\ which \in {"store", "shell", "screen", "mesh", "player", "account"}
  /\ Init /\ Shell!Init /\ Screen!Init /\ Mesh!Init /\ Player!Init
  /\ Account!Init
  /\ which # "store" => \A b \in Blocks : palette[1] <= b
  /\ which # "account" => trusted /\ stored

Only(one, action) ==
  /\ which = one /\ action
  /\ one # "store" => UNCHANGED vars
  /\ one # "shell" => UNCHANGED shellVars
  /\ one # "screen" => UNCHANGED screenVars
  /\ one # "mesh" => UNCHANGED meshVars
  /\ one # "player" => UNCHANGED playerVars
  /\ one # "account" => UNCHANGED accountVars

RunNext ==
  /\ UNCHANGED which
  /\ \/ Only("store", Next)
     \/ Only("shell", Shell!Next)
     \/ Only("screen", Screen!Next)
     \/ Only("mesh", Mesh!Next)
     \/ Only("player", Player!Next)
     \/ Only("account", Account!Next)

\* Each part's own fairness.
RunFairness ==
  /\ WF_shellVars(which = "shell" /\ Shell!Frame)
  /\ WF_shellVars(which = "shell" /\ Shell!Clock)
  /\ WF_shellVars(which = "shell" /\ Shell!SignInAnswered)
  /\ WF_meshVars(which = "mesh" /\ Mesh!Frame)
  /\ WF_meshVars(which = "mesh" /\ Mesh!Work)
  /\ WF_playerVars(which = "player" /\ Player!Tick)
  /\ SF_playerVars(which = "player" /\ Player!Receive)

RunSpec == RunInit /\ [][RunNext]_allVars /\ RunFairness

-----------------------------------------------------------------------------
\* The types of all of them.
TypesOK ==
  /\ which = "store" => TypeOK
  /\ which = "shell" => Shell!TypeOK
  /\ which = "screen" => Screen!TypeOK
  /\ which = "mesh" => Mesh!TypeOK
  /\ which = "player" => Player!TypeOK
  /\ which = "account" => Account!TypeOK

\* The client's sessions and what answers their sign-ins are there as long as they are used
\* (ClientApp).
SessionsLive == which = "shell" => Shell!SessionsLive

\* The server is told of the end of each screen, and a press that was meant for a screen is no
\* press in the game (UiRuntime, ClientApp).
ScreensHold == which = "screen" => Screen!EndsAreTold /\ Screen!PunchIsMeant

\* A capture of the mouse waits for as long as it has to (ClientApp::frame).
CaptureIsKept == Screen!CaptureIsKept

\* No mesh that is not due to be made again is out of date (ClientChunkStore, ChunkRenderer).
MeshIsCurrent == which = "mesh" => Mesh!MeshIsCurrent

\* Each input moves the player once, and hardly any is passed over (handle_input_batch,
\* reconcile).
InputsCountOnce == which = "player" => Player!NoInputTwice /\ Player!NoInputSkipped

\* The prediction comes back to the server's position, and what stays in view is shown
\* (reconcile; broadcast_snapshots, apply_snapshot).
PlayerConverges == which = "player" => Player!PredictionConverges /\ Player!VisibleIsShown

\* A request to sign in is never stuck in silence, and an answer fits the request it is verified
\* for (SignInCoordinator; system_reauth, finish_reauth).
SignInHolds == which = "account" => Account!NeverStuck /\ Account!AnswerFits

\* What a client began gets done: every attempt to connect ends, whatever the server does, and
\* once nothing changes, all that is loaded is on the screen (ClientApp::frame,
\* ChunkRenderer::sync).
ClientGetsThere == /\ (which = "shell" => Shell!AttemptsEnd)
                   /\ (which = "mesh" => Mesh!WorldIsShown)
================================================================================
