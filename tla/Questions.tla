------------------------------ MODULE Questions ------------------------------
(***************************************************************************)
(* The Question tool of a session without a terminal, which writes         *)
(* question.json and polls for answer.json (nativeQuestion), and the       *)
(* processes that answer it through SubmitPendingQuestionAnswer.  Every    *)
(* file operation is a step.  All submitters write the same temporary      *)
(* file and rename it, so files are told from their names: a process that  *)
(* has opened the temporary file writes to it also after another one has   *)
(* renamed it.                                                             *)
(***************************************************************************)
EXTENDS Naturals, FiniteSets

CONSTANTS
  Submitters,    \* processes of toc answer, each of which runs once
  NoFile,        \* no file has the name
  MaxQuestions,  \* bound: questions asked in the session
  Faults         \* kill, writeFails: which of them occur

ASSUME QuestionsAssumption ==
  /\ NoFile \notin Submitters
  /\ MaxQuestions \in Nat
  /\ Faults \subseteq {"kill", "writeFails"}

VARIABLES
  question,   \* question.json: 0 for none, else the question's number, or torn
  tmp,        \* the file that has the name answer.json.tmp
  answer,     \* the file that has the name answer.json
  content,    \* what is in the file that a submitter has created
  asker,      \* where the Question tool is
  asked,      \* the number of the last question
  got,        \* the answer it has read
  pc,         \* where a submitter is, and at the end what it was told
  pending,    \* whether it has seen an answer.json
  to,         \* the question it has seen
  fd,         \* the file it writes to
  used,       \* history: the answers returned to the model, with the question
  abandoned,  \* history: the questions that ended without an answer
  late,       \* history: submitters at work while a question was put, from the
              \* removal of a stale answer until question.json was truncated
  raced       \* history: submitters that were at work at the same time

files   == <<question, tmp, answer, content>>
tool    == <<asker, asked, got>>
command == <<pc, pending, to, fd>>
history == <<used, abandoned, late, raced>>
vars    == <<files, tool, command, history>>

Asked   == 1 .. MaxQuestions
NoQuestion == 0
Torn    == MaxQuestions + 1     \* question.json does not parse

Answers == [by : Submitters, to : Asked]
Empty   == [by |-> NoFile, to |-> 0]
Garbled == [by |-> NoFile, to |-> 1]
Contents == Answers \cup {Empty, Garbled}

AtWork == {s \in Submitters : pc[s] \in {"stat", "open", "write", "rename", "remove"}}
Ends   == {"accepted", "noQuestion", "alreadyPending", "failed"}

TypeOK ==
  /\ question \in Asked \cup {NoQuestion, Torn}
  /\ {tmp, answer} \subseteq Submitters \cup {NoFile}
  /\ content \in [Submitters -> Contents]
  /\ asker \in {"idle", "open", "write", "poll", "got", "used"}
  /\ asked \in 0 .. MaxQuestions
  /\ got \in Answers \cup {Empty}
  /\ pc \in [Submitters -> {"idle", "stat", "open", "write", "rename", "remove"} \cup Ends]
  /\ pending \in [Submitters -> BOOLEAN]
  /\ to \in [Submitters -> Asked \cup {0}]
  /\ fd \in [Submitters -> Submitters \cup {NoFile}]
  /\ used \subseteq Answers \X Asked
  /\ abandoned \subseteq Asked
  /\ late \subseteq Submitters
  /\ raced \subseteq Submitters

-----------------------------------------------------------------------------
(* nativeQuestion *)

\* Mutant: an answer that is there is not removed first.
Ask_KeepsStale ==
  /\ asker = "idle" /\ asked < MaxQuestions
  /\ asked' = asked + 1
  /\ asker' = "open"
  /\ late' = late \cup AtWork
  /\ UNCHANGED <<files, got, command, used, abandoned, raced>>

\* A stale answer is removed before the question is written.
Ask ==
  /\ asker = "idle" /\ asked < MaxQuestions
  /\ asked' = asked + 1
  /\ answer' = NoFile
  /\ asker' = "open"
  /\ late' = late \cup AtWork
  /\ UNCHANGED <<question, tmp, content, got, command, used, abandoned, raced>>

\* os.WriteFile of question.json: truncated, then written.
OpenQuestion ==
  /\ asker = "open"
  /\ question' = Torn
  /\ asker' = "write"
  /\ UNCHANGED <<tmp, answer, content, asked, got, command, history>>

WriteQuestion ==
  /\ asker = "write"
  /\ question' = asked
  /\ asker' = "poll"
  /\ UNCHANGED <<tmp, answer, content, asked, got, command, history>>

Abandon == asker' = "idle" /\ abandoned' = abandoned \cup {asked}

\* The tool fails and leaves the file as it is.
WriteFails ==
  /\ "writeFails" \in Faults
  /\ asker = "write"
  /\ Abandon
  /\ UNCHANGED <<files, asked, got, command, used, late, raced>>

\* Half a second later: an answer.json that parses.
ReadAnswer ==
  /\ asker = "poll" /\ answer # NoFile
  /\ content[answer] \in Answers
  /\ got' = content[answer]
  /\ asker' = "got"
  /\ UNCHANGED <<files, asked, command, history>>

RemoveQuestion ==
  /\ asker = "got"
  /\ question' = NoQuestion
  /\ asker' = "used"
  /\ UNCHANGED <<tmp, answer, content, asked, got, command, history>>

\* The result is returned to the model.
RemoveAnswer ==
  /\ asker = "used"
  /\ answer' = NoFile
  /\ used' = used \cup {<<got, asked>>}
  /\ got' = Empty
  /\ asker' = "idle"
  /\ UNCHANGED <<question, tmp, content, asked, command, abandoned, late, raced>>

\* Mutant: the deadline is looked at only when there is no answer.json.
TimeOut_OnlyUnanswered ==
  /\ asker = "poll" /\ answer = NoFile
  /\ question' = NoQuestion
  /\ Abandon
  /\ UNCHANGED <<tmp, answer, content, asked, got, command, used, late, raced>>

\* questionPollTimeout
TimeOut ==
  /\ asker = "poll"
  /\ question' = NoQuestion
  /\ Abandon
  /\ UNCHANGED <<tmp, answer, content, asked, got, command, used, late, raced>>

\* The session is killed; when it is resumed, the model may ask again.
Kill ==
  /\ "kill" \in Faults
  /\ asker # "idle"
  /\ Abandon
  /\ got' = Empty
  /\ UNCHANGED <<files, asked, command, used, late, raced>>

Tool == \/ OpenQuestion   \/ WriteQuestion \/ WriteFails \/ ReadAnswer
        \/ RemoveQuestion \/ RemoveAnswer  \/ TimeOut

-----------------------------------------------------------------------------
(* submitPendingQuestionAnswerToDir.  A submitter that is killed is one    *)
(* that takes no more steps.                                               *)

Goto(s, where) == pc' = [pc EXCEPT ![s] = where]

\* inspectPendingQuestionFromDir looks for an answer first ...
Stat(s) ==
  /\ pc[s] = "idle"
  /\ pending' = [pending EXCEPT ![s] = answer # NoFile]
  /\ Goto(s, "stat")
  /\ raced' = IF AtWork = {} THEN raced ELSE raced \cup AtWork \cup {s}
  /\ late' = IF asker = "open" THEN late \cup {s} ELSE late
  /\ UNCHANGED <<files, tool, to, fd, used, abandoned>>

\* Mutant: a pending answer is overwritten.
Inspect_IgnoresPending(s) ==
  /\ pc[s] = "stat"
  /\ \/ question = NoQuestion /\ Goto(s, "noQuestion") /\ UNCHANGED to
     \/ question = Torn       /\ Goto(s, "failed")     /\ UNCHANGED to
     \/ /\ question \in Asked
        /\ to' = [to EXCEPT ![s] = question]
        /\ Goto(s, "open")
  /\ UNCHANGED <<files, tool, pending, fd, history>>

\* ... and then reads the question.
Inspect(s) ==
  /\ pc[s] = "stat"
  /\ \/ question = NoQuestion /\ Goto(s, "noQuestion") /\ UNCHANGED to
     \/ question = Torn       /\ Goto(s, "failed")     /\ UNCHANGED to
     \/ /\ question \in Asked /\ pending[s]
        /\ Goto(s, "alreadyPending")
        /\ UNCHANGED to
     \/ /\ question \in Asked /\ ~pending[s]
        /\ to' = [to EXCEPT ![s] = question]
        /\ Goto(s, "open")
  /\ UNCHANGED <<files, tool, pending, fd, history>>

\* os.WriteFile of the temporary file: created or truncated ...
OpenTmp(s) ==
  /\ pc[s] = "open"
  /\ LET f == IF tmp = NoFile THEN s ELSE tmp IN
       /\ tmp' = f
       /\ content' = [content EXCEPT ![f] = Empty]
       /\ fd' = [fd EXCEPT ![s] = f]
  /\ Goto(s, "write")
  /\ UNCHANGED <<question, answer, tool, pending, to, history>>

Mine(s) == [by |-> s, to |-> to[s]]

\* ... and written: over a longer text that another process has written
\* meanwhile, whose rest stays.
WriteTmp(s) ==
  /\ pc[s] = "write"
  /\ \E c \in {Mine(s), Garbled} :
       /\ content[fd[s]] = Empty => c = Mine(s)
       /\ content' = [content EXCEPT ![fd[s]] = c]
  /\ Goto(s, "rename")
  /\ UNCHANGED <<question, tmp, answer, tool, pending, to, fd, history>>

\* The rename fails when another submitter has renamed the file already.
Rename(s) ==
  /\ pc[s] = "rename"
  /\ \/ tmp # NoFile /\ answer' = tmp /\ tmp' = NoFile /\ Goto(s, "accepted")
     \/ tmp = NoFile /\ UNCHANGED <<tmp, answer>>      /\ Goto(s, "remove")
  /\ UNCHANGED <<question, content, tool, pending, to, fd, history>>

RemoveTmp(s) ==
  /\ pc[s] = "remove"
  /\ tmp' = NoFile
  /\ Goto(s, "failed")
  /\ UNCHANGED <<question, answer, content, tool, pending, to, fd, history>>

Submit(s) == Stat(s) \/ Inspect(s) \/ OpenTmp(s) \/ WriteTmp(s) \/ Rename(s) \/ RemoveTmp(s)

-----------------------------------------------------------------------------
Init ==
  /\ question = NoQuestion /\ tmp = NoFile /\ answer = NoFile
  /\ content = [s \in Submitters |-> Empty]
  /\ asker = "idle" /\ asked = 0 /\ got = Empty
  /\ pc = [s \in Submitters |-> "idle"]
  /\ pending = [s \in Submitters |-> FALSE]
  /\ to = [s \in Submitters |-> 0]
  /\ fd = [s \in Submitters |-> NoFile]
  /\ used = {} /\ abandoned = {} /\ late = {} /\ raced = {}

Next == Ask \/ Tool \/ Kill \/ \E s \in Submitters : Submit(s)

Spec == Init /\ [][Next]_vars

\* The tool's loop goes on until its deadline; nobody has to answer.
FairSpec == Spec /\ WF_vars(Tool)

-----------------------------------------------------------------------------
(* What may be relied on *)

\* "Remove a stale answer before writing the question so we don't pick up
\* an old response" (native_tools.go:502): the answer to another question
\* is returned only when its submitter was at work while the question was
\* put: it finished late, or it still read the question of a killed session.
StaleAnswersUnused ==
  \A u \in used : u[1].to # u[2] => u[1].by \in late

\* An answer that was accepted is not lost: until its question ends without
\* an answer, it is in answer.json, read or returned, for that question or
\* a later one.  Submitters at work at the same time may lose one another's.
AcceptedIsUsed ==
  \A s \in Submitters :
    pc[s] = "accepted" /\ s \notin raced /\ to[s] \notin abandoned =>
      \/ answer # NoFile /\ content[answer] = Mine(s)
      \/ got = Mine(s)
      \/ <<Mine(s), to[s]>> \in used

\* Whoever answers, and whatever is in answer.json, the tool returns.
QuestionEnds == asker # "idle" ~> asker = "idle"
=============================================================================
