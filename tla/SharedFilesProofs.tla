-------------------------- MODULE SharedFilesProofs --------------------------
(***************************************************************************)
(* The files through which the processes of a workspace work together:     *)
(* question.json and answer.json of the Question tool, and sessions.yaml.  *)
(***************************************************************************)
EXTENDS Questions, SessionStore, TLAPS

(***************************************************************************)
(* That the answer to another question is used only when its submitter was *)
(* at work while the question was put, for any number of submitters and of *)
(* questions.  The argument follows an answer from its submitter to the    *)
(* model: every submitter past its look at question.json has seen the      *)
(* question that is asked, or is late; what is in the temporary file was   *)
(* written by a submitter that has still to rename it; so what is renamed  *)
(* to answer.json, or written to it afterwards, is for that question or by *)
(* a late submitter, and so is what the tool reads.                        *)
(*   The second part is about the other promise: an answer that the        *)
(* command has reported as accepted is the one the model is given.         *)
(***************************************************************************)

Asking == {"open", "write", "poll", "got", "used"}

Timely(a) == a.to = asked \/ a.by \in late

\* question.json, by where the tool is.
QuestionInv ==
  /\ asker # "idle" => asked \in Asked
  /\ asker = "write" => question = Torn
  /\ asker \in {"poll", "got"} => question = asked
  /\ asker = "used" => question = NoQuestion

\* A submitter that has seen a question has seen this one, or is late.
SubmitterInv ==
  \A s \in Submitters :
    /\ pc[s] \in {"open", "write", "rename"} => to[s] \in Asked
    /\ asker = "open" /\ s \in AtWork => s \in late
    /\ asker \in Asking /\ pc[s] \in {"open", "write", "rename"} => Timely(Mine(s))

\* The author of what is in the temporary file has still to rename it.
TmpInv ==
  tmp # NoFile /\ content[tmp] \in Answers =>
    LET a == content[tmp] IN pc[a.by] = "rename" /\ a.to = to[a.by]

AnswerInv ==
  /\ answer # NoFile /\ content[answer] \in Answers /\ asker \in Asking =>
       IF asker = "open" THEN content[answer].by \in late ELSE Timely(content[answer])
  /\ asker \in {"got", "used"} => got \in Answers /\ Timely(got)

IInv == TypeOK /\ QuestionInv /\ SubmitterInv /\ TmpInv /\ AnswerInv /\ StaleAnswersUnused

-----------------------------------------------------------------------------
\* What is no answer is told from every answer, and no number of a question
\* from the others.
LEMMA Distinct ==
  /\ Empty \notin Answers /\ Garbled \notin Answers
  /\ NoQuestion \notin Asked /\ Torn \notin Asked /\ NoQuestion # Torn
BY QuestionsAssumption DEF Empty, Garbled, Answers, NoQuestion, Torn, Asked

\* The next question has a number within the bound.
LEMMA NextNumber == ASSUME TypeOK, asked < MaxQuestions PROVE asked + 1 \in Asked
BY QuestionsAssumption DEF TypeOK, Asked

\* What a submitter writes is an answer.
LEMMA MineIsAnswer ==
  ASSUME TypeOK, NEW s \in Submitters, to[s] \in Asked PROVE Mine(s) \in Answers
BY DEF TypeOK, Mine, Answers

\* Nothing has been asked: the invariant holds.
LEMMA InitOK == Init => IInv
<1> SUFFICES ASSUME Init PROVE IInv
  OBVIOUS
<1>1. TypeOK
  BY QuestionsAssumption DEF Init, TypeOK, Contents
<1>2. QED
  BY <1>1, Distinct
  DEF Init, IInv, QuestionInv, SubmitterInv, TmpInv, AnswerInv, StaleAnswersUnused, Asking

\* Whoever is at work is late, and no answer is left.
LEMMA AskOK == ASSUME IInv, Ask PROVE IInv'
<1> USE DEF IInv, Ask, files, tool, command, history
<1>1. TmpInv' /\ AnswerInv' /\ StaleAnswersUnused'
  BY DEF TmpInv, AnswerInv, StaleAnswersUnused
<1>2. TypeOK'
  <2>1. asked' \in 0 .. MaxQuestions
    BY NextNumber DEF Asked
  <2>2. AtWork \subseteq Submitters
    BY DEF AtWork
  <2> QED
    BY <2>1, <2>2 DEF TypeOK
<1>3. QuestionInv'
  BY NextNumber DEF QuestionInv
<1>4. SubmitterInv'
  BY DEF SubmitterInv, Timely, Mine, AtWork
<1> QED
  BY <1>1, <1>2, <1>3, <1>4

\* Who was at work, or has answered since, is late.
LEMMA OpenQuestionOK == ASSUME IInv, OpenQuestion PROVE IInv'
<1> USE DEF IInv, OpenQuestion, files, tool, command, history
<1>1. TypeOK' /\ QuestionInv' /\ TmpInv' /\ StaleAnswersUnused'
  BY DEF TypeOK, QuestionInv, TmpInv, StaleAnswersUnused
<1>2. SubmitterInv'
  BY DEF SubmitterInv, Asking, Timely, Mine
<1>3. AnswerInv'
  BY DEF AnswerInv, Asking, Timely
<1> QED
  BY <1>1, <1>2, <1>3

\* From here on the question that is seen is this one.
LEMMA WriteQuestionOK == ASSUME IInv, WriteQuestion PROVE IInv'
<1> USE DEF IInv, WriteQuestion, files, tool, command, history
<1>1. QuestionInv' /\ TmpInv' /\ StaleAnswersUnused'
  BY DEF QuestionInv, TmpInv, StaleAnswersUnused
<1>2. TypeOK'
  BY DEF TypeOK, QuestionInv
<1>3. SubmitterInv'
  BY DEF SubmitterInv, Asking, Timely, Mine
<1>4. AnswerInv'
  BY DEF AnswerInv, Asking, Timely
<1> QED
  BY <1>1, <1>2, <1>3, <1>4

\* With the tool at rest nothing is asked.
LEMMA WriteFailsOK == ASSUME IInv, WriteFails PROVE IInv'
<1> USE DEF IInv, WriteFails, files, tool, command, history, Abandon
<1>1. QuestionInv' /\ TmpInv' /\ StaleAnswersUnused'
  BY DEF QuestionInv, TmpInv, StaleAnswersUnused
<1>2. TypeOK'
  BY DEF TypeOK, QuestionInv
<1>3. SubmitterInv'
  BY DEF SubmitterInv, Asking
<1>4. AnswerInv'
  BY DEF AnswerInv, Asking
<1> QED
  BY <1>1, <1>2, <1>3, <1>4

\* What is read is what AnswerInv says of answer.json.
LEMMA ReadAnswerOK == ASSUME IInv, ReadAnswer PROVE IInv'
<1> USE DEF IInv, ReadAnswer, files, tool, command, history
<1>1. TypeOK' /\ QuestionInv' /\ TmpInv' /\ StaleAnswersUnused'
  BY DEF TypeOK, QuestionInv, TmpInv, StaleAnswersUnused
<1>2. SubmitterInv'
  BY DEF SubmitterInv, Asking, Timely, Mine
<1>3. AnswerInv'
  BY DEF AnswerInv, Asking, Timely
<1> QED
  BY <1>1, <1>2, <1>3

\* The tool removes question.json when it has read an answer.
LEMMA RemoveQuestionOK == ASSUME IInv, RemoveQuestion PROVE IInv'
<1> USE DEF IInv, RemoveQuestion, files, tool, command, history
<1>1. TypeOK' /\ QuestionInv' /\ TmpInv' /\ StaleAnswersUnused'
  BY DEF TypeOK, QuestionInv, TmpInv, StaleAnswersUnused
<1>2. SubmitterInv'
  BY DEF SubmitterInv, Asking, Timely, Mine
<1>3. AnswerInv'
  BY DEF AnswerInv, Asking, Timely
<1> QED
  BY <1>1, <1>2, <1>3

\* The answer that is returned was read while this question was asked.
LEMMA RemoveAnswerOK == ASSUME IInv, RemoveAnswer PROVE IInv'
<1> USE DEF IInv, RemoveAnswer, files, tool, command, history
<1>1. QuestionInv' /\ TmpInv' /\ AnswerInv'
  BY DEF QuestionInv, TmpInv, AnswerInv
<1>2. TypeOK'
  BY DEF TypeOK, QuestionInv, AnswerInv
<1>3. SubmitterInv'
  BY DEF SubmitterInv, Asking
<1>4. StaleAnswersUnused'
  BY DEF StaleAnswersUnused, AnswerInv, Timely
<1> QED
  BY <1>1, <1>2, <1>3, <1>4

\* The tool gives a question up.
LEMMA TimeOutOK == ASSUME IInv, TimeOut PROVE IInv'
<1> USE DEF IInv, TimeOut, files, tool, command, history, Abandon
<1>1. QuestionInv' /\ TmpInv' /\ StaleAnswersUnused'
  BY DEF QuestionInv, TmpInv, StaleAnswersUnused
<1>2. TypeOK'
  BY DEF TypeOK, QuestionInv
<1>3. SubmitterInv'
  BY DEF SubmitterInv, Asking
<1>4. AnswerInv'
  BY DEF AnswerInv, Asking
<1> QED
  BY <1>1, <1>2, <1>3, <1>4

\* The session is killed.
LEMMA KillOK == ASSUME IInv, Kill PROVE IInv'
<1> USE DEF IInv, Kill, files, tool, command, history, Abandon
<1>1. QuestionInv' /\ TmpInv' /\ StaleAnswersUnused'
  BY DEF QuestionInv, TmpInv, StaleAnswersUnused
<1>2. TypeOK'
  BY DEF TypeOK, QuestionInv
<1>3. SubmitterInv'
  BY DEF SubmitterInv, Asking
<1>4. AnswerInv'
  BY DEF AnswerInv, Asking
<1> QED
  BY <1>1, <1>2, <1>3, <1>4

\* Who starts while the question is put is late.
LEMMA StatOK == ASSUME IInv, NEW s \in Submitters, Stat(s) PROVE IInv'
<1> USE DEF IInv, Stat, files, tool, command, history, Goto
<1>1. QuestionInv' /\ TmpInv' /\ StaleAnswersUnused'
  BY DEF QuestionInv, TmpInv, StaleAnswersUnused
<1>2. TypeOK'
  BY DEF TypeOK, AtWork
<1>3. SubmitterInv'
  BY DEF SubmitterInv, Timely, Mine, AtWork
<1>4. AnswerInv'
  BY DEF AnswerInv, Timely
<1> QED
  BY <1>1, <1>2, <1>3, <1>4

\* The question that is seen is the one that is asked, unless the submitter
\* is late.
LEMMA InspectOK == ASSUME IInv, NEW s \in Submitters, Inspect(s) PROVE IInv'
<1> USE DEF IInv, Inspect, files, tool, command, history, Goto
<1>1. QuestionInv' /\ StaleAnswersUnused'
  BY DEF QuestionInv, StaleAnswersUnused
<1>2. TypeOK'
  BY DEF TypeOK, Ends
<1>3. SubmitterInv'
  BY Distinct DEF SubmitterInv, TypeOK, QuestionInv, Asking, Timely, Mine, AtWork
<1>4. TmpInv'
  BY DEF TmpInv, TypeOK, Answers
<1>5. AnswerInv'
  BY DEF AnswerInv, Timely
<1> QED
  BY <1>1, <1>2, <1>3, <1>4, <1>5

\* An empty file holds no answer, whatever its names are.
LEMMA OpenTmpOK == ASSUME IInv, NEW s \in Submitters, OpenTmp(s) PROVE IInv'
<1> USE DEF IInv, OpenTmp, files, tool, command, history, Goto
<1>1. QuestionInv' /\ StaleAnswersUnused'
  BY DEF QuestionInv, StaleAnswersUnused
<1>2. TypeOK'
  BY DEF TypeOK, Contents
<1>3. SubmitterInv'
  BY DEF SubmitterInv, Timely, Mine, AtWork
<1>4. TmpInv'
  BY Distinct DEF TmpInv, TypeOK
<1>5. AnswerInv'
  BY Distinct DEF AnswerInv, Timely
<1> QED
  BY <1>1, <1>2, <1>3, <1>4, <1>5

\* The text is the submitter's own, wherever the file is by now.
LEMMA WriteTmpOK == ASSUME IInv, NEW s \in Submitters, WriteTmp(s) PROVE IInv'
<1> USE DEF IInv, WriteTmp, files, tool, command, history, Goto
<1>1. QuestionInv' /\ StaleAnswersUnused'
  BY DEF QuestionInv, StaleAnswersUnused
<1>2. TypeOK'
  <2>1. {Mine(s), Garbled} \subseteq Contents
    BY MineIsAnswer DEF SubmitterInv, Contents
  <2>2. content' \in [Submitters -> Contents]
    BY <2>1 DEF TypeOK
  <2> QED
    BY <2>2 DEF TypeOK
<1>3. SubmitterInv'
  BY DEF SubmitterInv, Timely, Mine, AtWork
<1>4. TmpInv'
  BY Distinct DEF TmpInv, TypeOK, Mine
<1>5. AnswerInv'
  BY Distinct DEF AnswerInv, SubmitterInv, Timely, Mine, AtWork
<1> QED
  BY <1>1, <1>2, <1>3, <1>4, <1>5

\* What moves to answer.json is of a submitter with TmpInv and SubmitterInv.
LEMMA RenameOK == ASSUME IInv, NEW s \in Submitters, Rename(s) PROVE IInv'
<1> USE DEF IInv, Rename, files, tool, command, history, Goto
<1>1. QuestionInv' /\ TmpInv' /\ StaleAnswersUnused'
  BY DEF QuestionInv, TmpInv, StaleAnswersUnused
<1>2. TypeOK'
  BY DEF TypeOK, Ends
<1>3. SubmitterInv'
  BY DEF SubmitterInv, TypeOK, Timely, Mine, AtWork
<1>4. AnswerInv'
  BY DEF AnswerInv, SubmitterInv, TmpInv, Timely, Mine, AtWork, Answers
<1> QED
  BY <1>1, <1>2, <1>3, <1>4

\* A submitter whose rename failed removes the temporary file.
LEMMA RemoveTmpOK == ASSUME IInv, NEW s \in Submitters, RemoveTmp(s) PROVE IInv'
<1> USE DEF IInv, RemoveTmp, files, tool, command, history, Goto
<1>1. QuestionInv' /\ TmpInv' /\ StaleAnswersUnused'
  BY DEF QuestionInv, TmpInv, StaleAnswersUnused
<1>2. TypeOK'
  BY DEF TypeOK, Ends
<1>3. SubmitterInv'
  BY DEF SubmitterInv, Timely, Mine, AtWork
<1>4. AnswerInv'
  BY DEF AnswerInv, Timely
<1> QED
  BY <1>1, <1>2, <1>3, <1>4

\* A step that changes nothing.
LEMMA StutterOK == ASSUME IInv, UNCHANGED vars PROVE IInv'
<1> USE DEF vars, files, tool, command, history
<1>1. TypeOK' /\ QuestionInv' /\ TmpInv'
  BY DEF IInv, TypeOK, QuestionInv, TmpInv
<1>2. SubmitterInv' /\ AnswerInv' /\ StaleAnswersUnused'
  BY DEF IInv, SubmitterInv, AnswerInv, StaleAnswersUnused, Timely, Mine, AtWork
<1> QED
  BY <1>1, <1>2 DEF IInv

\* Each step keeps the invariant.
LEMMA NextOK == IInv /\ [Next]_vars => IInv'
<1> SUFFICES ASSUME IInv, [Next]_vars PROVE IInv'
  OBVIOUS
<1>1. CASE Ask
  BY <1>1, AskOK
<1>2. CASE OpenQuestion
  BY <1>2, OpenQuestionOK
<1>3. CASE WriteQuestion
  BY <1>3, WriteQuestionOK
<1>4. CASE WriteFails
  BY <1>4, WriteFailsOK
<1>5. CASE ReadAnswer
  BY <1>5, ReadAnswerOK
<1>6. CASE RemoveQuestion
  BY <1>6, RemoveQuestionOK
<1>7. CASE RemoveAnswer
  BY <1>7, RemoveAnswerOK
<1>8. CASE TimeOut
  BY <1>8, TimeOutOK
<1>9. CASE Kill
  BY <1>9, KillOK
<1>10. CASE \E s \in Submitters : Submit(s)
  <2>0. PICK s \in Submitters : Submit(s)
    BY <1>10
  <2>1. CASE Stat(s)
    BY <2>1, StatOK
  <2>2. CASE Inspect(s)
    BY <2>2, InspectOK
  <2>3. CASE OpenTmp(s)
    BY <2>3, OpenTmpOK
  <2>4. CASE WriteTmp(s)
    BY <2>4, WriteTmpOK
  <2>5. CASE Rename(s)
    BY <2>5, RenameOK
  <2>6. CASE RemoveTmp(s)
    BY <2>6, RemoveTmpOK
  <2> QED
    BY <2>0, <2>1, <2>2, <2>3, <2>4, <2>5, <2>6 DEF Submit
<1>11. CASE UNCHANGED vars
  BY <1>11, StutterOK
<1> QED
  BY <1>1, <1>2, <1>3, <1>4, <1>5, <1>6, <1>7, <1>8, <1>9, <1>10, <1>11 DEF Next, Tool

\* The invariant holds always.
LEMMA Inductive == Spec => []IInv
BY InitOK, NextOK, PTL DEF Spec

-----------------------------------------------------------------------------
\* Type correctness, for any number of submitters, questions and kills.
THEOREM TypeCorrect == Spec => []TypeOK
<1>1. IInv => TypeOK
  BY DEF IInv
<1> QED
  BY <1>1, Inductive, PTL

\* However many processes answer, in whatever order their file operations
\* come, whenever the session is killed or its tool gives up: an answer to
\* another question is returned to the model only when its submitter was at
\* work while the question was put.
THEOREM NoStaleAnswer == Spec => []StaleAnswersUnused
<1>1. IInv => StaleAnswersUnused
  BY DEF IInv
<1> QED
  BY <1>1, Inductive, PTL

-----------------------------------------------------------------------------
(* That an accepted answer is not lost *)

\* Whoever has not been at work together with another one is at work alone,
\* and the temporary file is its own.
AloneInv ==
  \A s \in Submitters : s \notin raced =>
    /\ s \in AtWork => AtWork = {s}
    /\ pc[s] = "stat" /\ ~pending[s] => answer = NoFile
    /\ pc[s] = "write" => content[fd[s]] = Empty
    /\ pc[s] = "rename" => content[fd[s]] = Mine(s)
    /\ pc[s] \in {"write", "rename"} => tmp = fd[s] /\ tmp # NoFile

\* The question that is in question.json is asked, or was given up.
PutInv ==
  /\ abandoned \subseteq 1 .. asked
  /\ question \in Asked =>
       question \in abandoned \/ (question = asked /\ asker \in {"poll", "got"})
  /\ asker \in {"got", "used"} => answer # NoFile

\* Nobody at work will come to answer.json.
Settled == \A t \in AtWork : pc[t] = "stat" /\ pending[t]

InFile(s)   == /\ to[s] = asked /\ asker = "poll"
               /\ answer # NoFile /\ content[answer] = Mine(s)
               /\ Settled
IsRead(s)   == to[s] = asked /\ asker \in {"got", "used"} /\ got = Mine(s)
Returned(s) == <<Mine(s), to[s]>> \in used

\* A submitter past its look at question.json answers the question that is
\* asked, to which there is no answer yet; once it is accepted, its answer
\* is in answer.json, read or returned.
HeldInv ==
  \A s \in Submitters : s \notin raced /\ to[s] \notin abandoned =>
    /\ pc[s] \in {"open", "write", "rename"} =>
         to[s] = asked /\ asker = "poll" /\ answer = NoFile
    /\ pc[s] = "accepted" => InFile(s) \/ IsRead(s) \/ Returned(s)

UInv == AloneInv /\ PutInv /\ HeldInv

\* Nothing has been accepted at first.
LEMMA UInitOK == Init => UInv
BY Distinct DEF Init, UInv, AloneInv, PutInv, HeldInv, AtWork

\* An answer that is removed here was to a question that was given up.
LEMMA AskKeeps == ASSUME IInv, UInv, Ask PROVE UInv'
<1> USE DEF IInv, UInv, Ask, files, tool, command, history
<1>1. AloneInv'
  BY DEF AloneInv, AtWork, Mine
<1>2. PutInv'
  BY DEF PutInv, TypeOK
<1>3. HeldInv'
  BY DEF HeldInv, InFile, IsRead, Returned, Mine
<1> QED
  BY <1>1, <1>2, <1>3

\* A new question is opened.
LEMMA OpenQuestionKeeps == ASSUME IInv, UInv, OpenQuestion PROVE UInv'
<1> USE DEF IInv, UInv, OpenQuestion, files, tool, command, history
<1>1. AloneInv'
  BY DEF AloneInv, AtWork, Mine
<1>2. PutInv'
  BY Distinct DEF PutInv
<1>3. HeldInv'
  BY DEF HeldInv, InFile, IsRead, Returned, Mine
<1> QED
  BY <1>1, <1>2, <1>3

\* The question becomes visible.
LEMMA WriteQuestionKeeps == ASSUME IInv, UInv, WriteQuestion PROVE UInv'
<1> USE DEF IInv, UInv, WriteQuestion, files, tool, command, history
<1>1. AloneInv'
  BY DEF AloneInv, AtWork, Mine
<1>2. PutInv'
  BY DEF PutInv
<1>3. HeldInv'
  BY DEF HeldInv, InFile, IsRead, Returned, Mine
<1> QED
  BY <1>1, <1>2, <1>3

\* The question cannot be written.
LEMMA WriteFailsKeeps == ASSUME IInv, UInv, WriteFails PROVE UInv'
<1> USE DEF IInv, UInv, WriteFails, files, tool, command, history, Abandon
<1>1. AloneInv'
  BY DEF AloneInv, AtWork, Mine
<1>2. PutInv'
  BY DEF PutInv, QuestionInv, TypeOK, Asked
<1>3. HeldInv'
  BY DEF HeldInv, InFile, IsRead, Returned, Mine
<1> QED
  BY <1>1, <1>2, <1>3

\* The answer in the file is the one that is read ...
LEMMA ReadAnswerKeeps == ASSUME IInv, UInv, ReadAnswer PROVE UInv'
<1> USE DEF IInv, UInv, ReadAnswer, files, tool, command, history
<1>1. AloneInv'
  BY DEF AloneInv, AtWork, Mine
<1>2. PutInv'
  BY DEF PutInv
<1>3. HeldInv'
  BY DEF HeldInv, InFile, IsRead, Returned, Mine
<1> QED
  BY <1>1, <1>2, <1>3

\* The question is removed once it is answered.
LEMMA RemoveQuestionKeeps == ASSUME IInv, UInv, RemoveQuestion PROVE UInv'
<1> USE DEF IInv, UInv, RemoveQuestion, files, tool, command, history
<1>1. AloneInv'
  BY DEF AloneInv, AtWork, Mine
<1>2. PutInv'
  BY Distinct DEF PutInv
<1>3. HeldInv'
  BY DEF HeldInv, InFile, IsRead, Returned, Mine
<1> QED
  BY <1>1, <1>2, <1>3

\* ... and the one that is read is returned.
LEMMA RemoveAnswerKeeps == ASSUME IInv, UInv, RemoveAnswer PROVE UInv'
<1> USE DEF IInv, UInv, RemoveAnswer, files, tool, command, history
<1>1. AloneInv'
  BY DEF AloneInv, AtWork, Mine
<1>2. PutInv'
  BY DEF PutInv
<1>3. HeldInv'
  BY DEF HeldInv, InFile, IsRead, Returned, Mine
<1> QED
  BY <1>1, <1>2, <1>3

\* A question that is given up asks for nothing any more; its answer may stay.
LEMMA TimeOutKeeps == ASSUME IInv, UInv, TimeOut PROVE UInv'
<1> USE DEF IInv, UInv, TimeOut, files, tool, command, history, Abandon
<1>1. AloneInv'
  BY DEF AloneInv, AtWork, Mine
<1>2. PutInv'
  BY Distinct DEF PutInv, QuestionInv, TypeOK, Asked
<1>3. HeldInv'
  BY DEF HeldInv, InFile, IsRead, Returned, Mine
<1> QED
  BY <1>1, <1>2, <1>3

\* The session is killed.
LEMMA KillKeeps == ASSUME IInv, UInv, Kill PROVE UInv'
<1> USE DEF IInv, UInv, Kill, files, tool, command, history, Abandon
<1>1. AloneInv'
  BY DEF AloneInv, AtWork, Mine
<1>2. PutInv'
  BY DEF PutInv, QuestionInv, TypeOK, Asked
<1>3. HeldInv'
  BY DEF HeldInv, InFile, IsRead, Returned, Mine
<1> QED
  BY <1>1, <1>2, <1>3

\* Whoever starts now sees the answer that is there.
LEMMA StatKeeps == ASSUME IInv, UInv, NEW s \in Submitters, Stat(s) PROVE UInv'
<1> USE DEF IInv, UInv, Stat, files, tool, command, history, Goto
<1>1. AloneInv'
  BY DEF AloneInv, AtWork, TypeOK
<1>2. PutInv'
  BY DEF PutInv
<1>3. HeldInv'
  <2>1. /\ raced \subseteq raced'
        /\ AtWork' = AtWork \cup {s}
        /\ \A t \in Submitters : Mine(t)' = Mine(t)
    BY DEF AtWork, TypeOK, Mine
  <2>2. answer # NoFile /\ Settled => Settled'
    BY DEF Settled, TypeOK, AtWork
  <2>3. \A t \in Submitters \ {s} : pc'[t] = pc[t]
    BY DEF TypeOK
  <2>4. pc'[s] = "stat"
    BY DEF TypeOK
  <2>5. ASSUME NEW t \in Submitters, t \notin raced', to[t] \notin abandoned, pc'[t] = "accepted"
        PROVE  (InFile(t) \/ IsRead(t) \/ Returned(t))'
    <3>1. InFile(t) \/ IsRead(t) \/ Returned(t)
      BY <2>5 DEF HeldInv
    <3> QED
      BY <2>1, <2>2, <3>1 DEF InFile, IsRead, Returned
  <2> QED
    BY <2>5 DEF HeldInv
<1> QED
  BY <1>1, <1>2, <1>3

\* The question seen by a submitter that has seen no answer, and is alone, has
\* none: it is asked, and the tool polls.
LEMMA InspectKeeps == ASSUME IInv, UInv, NEW s \in Submitters, Inspect(s) PROVE UInv'
<1> USE DEF IInv, UInv, Inspect, files, tool, command, history, Goto
<1>0. /\ AtWork' \subseteq AtWork
      /\ AtWork' # {} /\ s \notin AtWork' => AtWork # {s}
      /\ \A t \in Submitters \ {s} : pc'[t] = pc[t] /\ Mine(t)' = Mine(t)
      /\ pc'[s] \notin {"stat", "write", "rename"}
  BY DEF AtWork, TypeOK, Mine
<1>1. AloneInv'
  <2>1. ASSUME NEW t \in Submitters, t \notin raced, t \in AtWork' PROVE AtWork' = {t}
    BY <1>0, <2>1 DEF AloneInv
  <2> QED
    BY <1>0 DEF AloneInv
<1>2. PutInv'
  BY DEF PutInv
<1>3. HeldInv'
  <2>1. ASSUME s \notin raced, to'[s] \notin abandoned, pc'[s] = "open"
        PROVE  to'[s] = asked /\ asker = "poll" /\ answer = NoFile
    BY <2>1 DEF AloneInv, PutInv, TypeOK
  <2>2. pc'[s] # "accepted"
    BY DEF TypeOK, Ends
  <2>3. ASSUME Settled PROVE Settled'
    BY <2>3 DEF Settled, AtWork, TypeOK
  <2>4. ASSUME NEW t \in Submitters \ {s}, to'[t] = to[t],
               InFile(t) \/ IsRead(t) \/ Returned(t)
        PROVE  (InFile(t) \/ IsRead(t) \/ Returned(t))'
    BY <2>3, <2>4, <1>0 DEF InFile, IsRead, Returned
  <2>5. \A t \in Submitters \ {s} : to'[t] = to[t]
    BY DEF TypeOK
  <2> QED
    BY <1>0, <2>1, <2>2, <2>4, <2>5 DEF HeldInv
<1> QED
  BY <1>1, <1>2, <1>3

\* The one at work opens a file of its own ...
LEMMA OpenTmpKeeps == ASSUME IInv, UInv, NEW s \in Submitters, OpenTmp(s) PROVE UInv'
<1> USE DEF IInv, UInv, OpenTmp, files, tool, command, history, Goto
<1>0. /\ AtWork' = AtWork /\ s \in AtWork
      /\ \A t \in Submitters : Mine(t)' = Mine(t)
      /\ \A t \in Submitters \ {s} : pc'[t] = pc[t]
      /\ pc'[s] = "write" /\ fd'[s] = tmp' /\ tmp' # NoFile /\ content'[fd'[s]] = Empty
  BY QuestionsAssumption DEF AtWork, TypeOK, Mine
<1>1. AloneInv'
  <2>1. ASSUME NEW t \in Submitters \ {s}, t \notin raced PROVE t \notin AtWork
    BY <1>0, <2>1 DEF AloneInv
  <2>2. \A t \in Submitters \ {s} : t \notin raced => pc'[t] \notin {"stat", "write", "rename"}
    BY <2>1 DEF AtWork
  <2> QED
    BY <1>0, <2>2 DEF AloneInv
<1>2. PutInv'
  BY DEF PutInv
<1>3. HeldInv'
  BY DEF HeldInv, InFile, IsRead, Returned, Settled, AtWork, Mine
<1> QED
  BY <1>1, <1>2, <1>3

\* ... writes its answer to it, and all of it ...
LEMMA WriteTmpKeeps == ASSUME IInv, UInv, NEW s \in Submitters, WriteTmp(s) PROVE UInv'
<1> USE DEF IInv, UInv, WriteTmp, files, tool, command, history, Goto
<1>1. AloneInv'
  BY DEF AloneInv, AtWork, Mine, TypeOK
<1>2. PutInv'
  BY DEF PutInv
<1>3. HeldInv'
  BY DEF HeldInv, InFile, IsRead, Returned, Settled, AtWork, Mine
<1> QED
  BY <1>1, <1>2, <1>3

\* ... and makes it answer.json, with nobody else at work.
LEMMA RenameKeeps == ASSUME IInv, UInv, NEW s \in Submitters, Rename(s) PROVE UInv'
<1> USE DEF IInv, UInv, Rename, files, tool, command, history, Goto
<1>1. AloneInv'
  BY DEF AloneInv, AtWork, TypeOK
<1>2. PutInv'
  BY DEF PutInv
<1>3. HeldInv'
  BY
  DEF HeldInv, AloneInv, TypeOK, InFile, IsRead, Returned, Settled, AtWork,
      Mine
<1> QED
  BY <1>1, <1>2, <1>3

\* A submitter removes its temporary file.
LEMMA RemoveTmpKeeps == ASSUME IInv, UInv, NEW s \in Submitters, RemoveTmp(s) PROVE UInv'
<1> USE DEF IInv, UInv, RemoveTmp, files, tool, command, history, Goto
<1>1. AloneInv'
  BY DEF AloneInv, AtWork
<1>2. PutInv'
  BY DEF PutInv
<1>3. HeldInv'
  BY DEF HeldInv, InFile, IsRead, Returned, Settled, AtWork, Mine
<1> QED
  BY <1>1, <1>2, <1>3

\* A step that changes nothing.
LEMMA StutterKeeps == ASSUME UInv, UNCHANGED vars PROVE UInv'
<1> USE DEF vars, files, tool, command, history
<1>1. AloneInv' /\ PutInv'
  BY DEF UInv, AloneInv, PutInv, AtWork, Mine
<1>2. HeldInv'
  BY DEF UInv, HeldInv, InFile, IsRead, Returned, Settled, AtWork, Mine
<1> QED
  BY <1>1, <1>2 DEF UInv

\* Each step keeps what is known of accepted answers.
LEMMA NextKeeps == IInv /\ UInv /\ [Next]_vars => UInv'
<1> SUFFICES ASSUME IInv, UInv, [Next]_vars PROVE UInv'
  OBVIOUS
<1>1. CASE Ask
  BY <1>1, AskKeeps
<1>2. CASE OpenQuestion
  BY <1>2, OpenQuestionKeeps
<1>3. CASE WriteQuestion
  BY <1>3, WriteQuestionKeeps
<1>4. CASE WriteFails
  BY <1>4, WriteFailsKeeps
<1>5. CASE ReadAnswer
  BY <1>5, ReadAnswerKeeps
<1>6. CASE RemoveQuestion
  BY <1>6, RemoveQuestionKeeps
<1>7. CASE RemoveAnswer
  BY <1>7, RemoveAnswerKeeps
<1>8. CASE TimeOut
  BY <1>8, TimeOutKeeps
<1>9. CASE Kill
  BY <1>9, KillKeeps
<1>10. CASE \E s \in Submitters : Submit(s)
  <2>0. PICK s \in Submitters : Submit(s)
    BY <1>10
  <2>1. CASE Stat(s)
    BY <2>1, StatKeeps
  <2>2. CASE Inspect(s)
    BY <2>2, InspectKeeps
  <2>3. CASE OpenTmp(s)
    BY <2>3, OpenTmpKeeps
  <2>4. CASE WriteTmp(s)
    BY <2>4, WriteTmpKeeps
  <2>5. CASE Rename(s)
    BY <2>5, RenameKeeps
  <2>6. CASE RemoveTmp(s)
    BY <2>6, RemoveTmpKeeps
  <2> QED
    BY <2>0, <2>1, <2>2, <2>3, <2>4, <2>5, <2>6 DEF Submit
<1>11. CASE UNCHANGED vars
  BY <1>11, StutterKeeps
<1> QED
  BY <1>1, <1>2, <1>3, <1>4, <1>5, <1>6, <1>7, <1>8, <1>9, <1>10, <1>11 DEF Next, Tool

\* However many processes answer and wherever the session is killed: the
\* answer of a submitter that was told it was accepted, and that was not at
\* work together with another one, is in answer.json, read or returned,
\* until its question ends without an answer.
THEOREM AcceptedAnswersAreUsed == Spec => []AcceptedIsUsed
<1>1. UInv => AcceptedIsUsed
  BY DEF UInv, HeldInv, AcceptedIsUsed, InFile, IsRead, Returned
<1> QED
  BY <1>1, Inductive, UInitOK, NextKeeps, PTL DEF Spec

-----------------------------------------------------------------------------
(***************************************************************************)
(* The locked read-modify-write of sessions.yaml implements a table that   *)
(* changes in one step, for any number of processes and sessions.          *)
(***************************************************************************)

\* Adds that have not been written yet.
Pending(a) ==
  stage[a] \in {"waiting", "locked", "read", "truncated"} /\ op[a].kind = "add"

\* The lock is held by whoever is inside the critical section ...
LockInv ==
  \A a \in Actors : stage[a] \in Holding <=> lock = a

\* ... what it has read is what the file stands for ...
SeenInv ==
  \A a \in Actors :
    /\ stage[a] # "idle" => op[a] \in Ops
    /\ stage[a] = "read" => seen[a] = file
    /\ stage[a] = "truncated" => file = NoSessions
    /\ stage[a] \in {"read", "truncated"} => Found(op[a], seen[a])
    /\ stage[a] = "notFound" => ~Found(op[a], file)

\* ... and an id that is still to be added is in use nowhere else.
IdInv ==
  /\ DOMAIN Table \subseteq ids
  /\ \A a \in Actors : Pending(a) => op[a].id \in ids \ DOMAIN Table
  /\ \A a, b \in Actors : Pending(a) /\ Pending(b) /\ a # b => op[a].id # op[b].id

Shape ==
  /\ file \in Tables
  /\ lock \in Actors \cup {NoActor}
  /\ stage \in [Actors -> {"idle", "waiting"} \cup Holding]
  /\ op \in [Actors -> Ops \cup {NoOp}]
  /\ seen \in [Actors -> Tables]

StoreInv == Shape /\ LockInv /\ SeenInv /\ IdInv

-----------------------------------------------------------------------------
(* Tables *)

\* A table is a function on sessions with values that are statuses.
LEMMA TableIs ==
  ASSUME NEW f
  PROVE  f \in Tables <=>
           /\ f = [s \in DOMAIN f |-> f[s]]
           /\ DOMAIN f \subseteq Sessions
           /\ \A s \in DOMAIN f : f[s] \in Statuses
<1>1. ASSUME f \in Tables
      PROVE  /\ f = [s \in DOMAIN f |-> f[s]]
             /\ DOMAIN f \subseteq Sessions
             /\ \A s \in DOMAIN f : f[s] \in Statuses
  <2>1. PICK S \in SUBSET Sessions : f \in [S -> Statuses]  BY <1>1 DEF Tables
  <2>2. QED  BY <2>1
<1>2. ASSUME /\ f = [s \in DOMAIN f |-> f[s]]
             /\ DOMAIN f \subseteq Sessions
             /\ \A s \in DOMAIN f : f[s] \in Statuses
      PROVE  f \in Tables
  <2>1. f \in [DOMAIN f -> Statuses]  BY <1>2
  <2>2. QED  BY <1>2, <2>1 DEF Tables
<1>3. QED  BY <1>1, <1>2

\* The table without sessions is a table.
LEMMA EmptyTable == NoSessions \in Tables /\ DOMAIN NoSessions = {}
<1>1. DOMAIN NoSessions = {}  BY DEF NoSessions
<1>2. NoSessions = [s \in DOMAIN NoSessions |-> NoSessions[s]]  BY DEF NoSessions
<1>3. QED  BY <1>1, <1>2, TableIs

\* An operation makes a table of a table.
LEMMA ApplyTable ==
  ASSUME NEW q \in Ops, NEW t \in Tables
  PROVE  Apply(q, t) \in Tables
<1>. DEFINE u == Apply(q, t)
<1>1. DOMAIN t \subseteq Sessions /\ \A s \in DOMAIN t : t[s] \in Statuses
  BY TableIs
<1>2. CASE q.kind = "remove"
  <2>1. /\ DOMAIN u \subseteq DOMAIN t
        /\ u = [s \in DOMAIN u |-> u[s]]
        /\ \A s \in DOMAIN u : u[s] = t[s]
    BY <1>2 DEF Apply
  <2>2. QED  BY <1>1, <2>1, TableIs
<1>3. CASE q.kind # "remove"
  <2>0. q.id \in Sessions /\ q.status \in Statuses
    BY <1>3 DEF Ops, Put, Remove
  <2>1. /\ DOMAIN u = DOMAIN t \cup {q.id}
        /\ u = [s \in DOMAIN u |-> u[s]]
        /\ \A s \in DOMAIN u : u[s] \in {q.status} \cup {t[s]}
        /\ \A s \in DOMAIN u : s # q.id => u[s] = t[s]
        /\ u[q.id] = q.status
    BY <1>3 DEF Apply
  <2>2. \A s \in DOMAIN u : u[s] \in Statuses
    BY <1>1, <2>0, <2>1
  <2>3. QED  BY <1>1, <2>0, <2>1, <2>2, TableIs
<1>4. QED  BY <1>2, <1>3

-----------------------------------------------------------------------------
(* The invariant holds initially and is preserved *)

USE SessionStoreAssumption

\* At first the invariant holds, and the table is empty.
LEMMA InitIInv == StoreInit => StoreInv /\ Abstract!Init
<1>. SUFFICES ASSUME StoreInit PROVE StoreInv /\ Abstract!Init
  OBVIOUS
<1>1. Shape
  BY EmptyTable DEF StoreInit, Shape, NoOp
<1>2. Table = NoSessions
  BY DEF StoreInit, Table
<1>3. LockInv /\ SeenInv
  BY DEF StoreInit, LockInv, SeenInv, Holding
<1>4. IdInv
  BY <1>2, EmptyTable DEF StoreInit, IdInv, Pending
<1>5. Abstract!Init
  BY <1>2 DEF Abstract!Init, Abstract!Empty, NoSessions
<1>6. QED
  BY <1>1, <1>3, <1>4, <1>5 DEF StoreInv

\* The start of an operation.
LEMMA BeginStep ==
  ASSUME StoreInv, NEW a \in Actors, NEW q \in Ops, Begin(a, q)
  PROVE  StoreInv' /\ Table' = Table
<1>. USE DEF StoreInv, Shape
<1>1. /\ stage[a] = "idle" /\ stage' = [stage EXCEPT ![a] = "waiting"]
      /\ op' = [op EXCEPT ![a] = q]
      /\ file' = file /\ lock' = lock /\ seen' = seen
      /\ ids \subseteq ids'
      /\ q.kind = "add" => q.id \notin ids /\ q.id \in ids'
  BY DEF Begin
<1>2. lock # a
  BY <1>1 DEF LockInv, Holding
<1>3. Table' = Table
  BY <1>1, <1>2 DEF Table
<1>4. Shape' /\ LockInv'
  BY <1>1, <1>2 DEF LockInv, Holding
<1>5. SeenInv'
  BY <1>1 DEF SeenInv
<1>6. IdInv'
  <2>1. \A b \in Actors : b # a => (Pending(b)' <=> Pending(b)) /\ op'[b] = op[b]
    BY <1>1 DEF Pending
  <2>2. Pending(a)' => op'[a].id \in ids' \ ids
    BY <1>1 DEF Pending, Begin
  <2>3. QED
    BY <1>1, <1>3, <2>1, <2>2 DEF IdInv
<1>7. QED
  BY <1>3, <1>4, <1>5, <1>6

\* The steps that do not write: taking the lock, reading, giving the lock
\* back, and a death outside the write.
LEMMA QuietStep ==
  ASSUME StoreInv, NEW a \in Actors,
         \/ Acquire(a) \/ Read(a) \/ Release(a)
         \/ stage[a] \notin {"idle", "truncated"} /\ Leave(a)
  PROVE  StoreInv' /\ Table' = Table
<1>. USE DEF StoreInv, Shape
<1>1. CASE Acquire(a)
  <2>1. /\ stage[a] = "waiting" /\ stage' = [stage EXCEPT ![a] = "locked"]
        /\ lock = NoActor /\ lock' = a
        /\ UNCHANGED <<file, op, seen, ids>>
    BY <1>1 DEF Acquire
  <2>2. Table' = Table
    BY <2>1 DEF Table
  <2>3. Shape' /\ LockInv'
    BY <2>1 DEF LockInv, Holding
  <2>4. SeenInv'
    BY <2>1 DEF SeenInv
  <2>5. IdInv'
    BY <2>1, <2>2 DEF IdInv, Pending
  <2>6. QED  BY <2>2, <2>3, <2>4, <2>5
<1>2. CASE Read(a)
  <2>1. /\ stage[a] = "locked"
        /\ stage' = [stage EXCEPT ![a] = IF Found(op[a], file) THEN "read" ELSE "notFound"]
        /\ seen' = [seen EXCEPT ![a] = file]
        /\ UNCHANGED <<file, lock, op, ids>>
    BY <1>2 DEF Read
  <2>2. lock = a
    BY <2>1 DEF LockInv, Holding
  <2>3. Table' = Table /\ Table = file
    BY <2>1, <2>2 DEF Table
  <2>4. file \in Tables
    OBVIOUS
  <2>5. Shape' /\ LockInv'
    BY <2>1, <2>4 DEF LockInv, Holding
  <2>6. SeenInv'
    BY <2>1 DEF SeenInv
  <2>7. IdInv'
    BY <2>1, <2>3 DEF IdInv, Pending
  <2>8. QED  BY <2>3, <2>5, <2>6, <2>7
<1>3. CASE \/ Release(a)
           \/ stage[a] \notin {"idle", "truncated"} /\ Leave(a)
  <2>1. /\ stage[a] # "idle" /\ stage[a] # "truncated"
        /\ stage' = [stage EXCEPT ![a] = "idle"]
        /\ lock' = IF lock = a THEN NoActor ELSE lock
        /\ UNCHANGED <<file, op, seen, ids>>
    BY <1>3 DEF Release, Leave
  <2>2. Table' = Table
    BY <2>1 DEF Table
  <2>3. Shape' /\ LockInv'
    BY <2>1 DEF LockInv, Holding
  <2>4. SeenInv'
    BY <2>1 DEF SeenInv
  <2>5. IdInv'
    BY <2>1, <2>2 DEF IdInv, Pending
  <2>6. QED  BY <2>2, <2>3, <2>4, <2>5
<1>4. QED
  BY <1>1, <1>2, <1>3

\* The truncation: the table is now what its writer has read.
LEMMA TruncateStep ==
  ASSUME StoreInv, NEW a \in Actors, Truncate(a)
  PROVE  StoreInv' /\ Table' = Table
<1>. USE DEF StoreInv, Shape
<1>1. /\ stage[a] = "read" /\ stage' = [stage EXCEPT ![a] = "truncated"]
      /\ file' = NoSessions
      /\ UNCHANGED <<lock, op, seen, ids>>
  BY DEF Truncate
<1>2. lock = a /\ \A b \in Actors : b # a => stage[b] \notin Holding
  BY <1>1 DEF LockInv, Holding
<1>3. lock # NoActor
  BY <1>2
<1>4. Table = file /\ Table' = seen[a]
  BY <1>1, <1>2, <1>3 DEF Table
<1>5. Table' = Table
  BY <1>1, <1>4 DEF SeenInv
<1>6. Shape' /\ LockInv'
  BY <1>1, <1>2, EmptyTable DEF LockInv, Holding
<1>7. SeenInv'
  BY <1>1, <1>2 DEF SeenInv, Holding
<1>8. IdInv'
  BY <1>1, <1>5 DEF IdInv, Pending
<1>9. QED
  BY <1>5, <1>6, <1>7, <1>8

\* The write is the one step in which the table changes.
LEMMA WriteStep ==
  ASSUME StoreInv, NEW a \in Actors, Write(a)
  PROVE  StoreInv' /\ Abstract!Next
<1>. USE DEF StoreInv, Shape
<1>1. /\ stage[a] = "truncated" /\ stage' = [stage EXCEPT ![a] = "written"]
      /\ file' = Apply(op[a], seen[a])
      /\ UNCHANGED <<lock, op, seen, ids>>
  BY DEF Write
<1>2. lock = a /\ \A b \in Actors : b # a => stage[b] \notin Holding
  BY <1>1 DEF LockInv, Holding
<1>3. Table = seen[a] /\ Table' = Apply(op[a], Table)
  BY <1>1, <1>2 DEF Table
<1>4. op[a] \in Ops /\ Found(op[a], Table) /\ Table \in Tables
  BY <1>1, <1>3 DEF SeenInv
<1>5. Shape' /\ LockInv'
  BY <1>1, <1>2, <1>3, <1>4, ApplyTable DEF LockInv, Holding
<1>6. SeenInv'
  BY <1>1, <1>2 DEF SeenInv, Holding
<1>7. CASE op[a].kind = "remove"
  <2>1. op[a].agent \in Agents
    BY <1>4, <1>7 DEF Ops, Put, Remove
  <2>2. Table' = Abstract!Without(Table, op[a].agent)
    BY <1>3, <1>7 DEF Apply, Abstract!Without
  <2>3. DOMAIN Table' \subseteq DOMAIN Table
    BY <2>2 DEF Abstract!Without
  <2>4. IdInv'
    BY <1>1, <2>3 DEF IdInv, Pending
  <2>5. QED
    BY <1>5, <1>6, <2>1, <2>2, <2>4 DEF Abstract!Next, Abstract!Remove
<1>8. CASE op[a].kind = "update"
  <2>1. op[a].id \in Sessions /\ op[a].status \in Statuses
    BY <1>4, <1>8 DEF Ops, Put, Remove
  <2>2. Table' = Abstract!With(Table, op[a].id, op[a].status)
    BY <1>3, <1>8 DEF Apply, Abstract!With
  <2>3. op[a].id \in DOMAIN Table
    BY <1>4, <1>8 DEF Found
  <2>4. DOMAIN Table' = DOMAIN Table
    BY <2>2, <2>3 DEF Abstract!With
  <2>5. IdInv'
    BY <1>1, <2>4 DEF IdInv, Pending
  <2>6. QED
    BY <1>5, <1>6, <2>1, <2>2, <2>3, <2>5 DEF Abstract!Next, Abstract!Set
<1>9. CASE op[a].kind = "add"
  <2>1. op[a].id \in Sessions /\ op[a].status \in Statuses
    BY <1>4, <1>9 DEF Ops, Put, Remove
  <2>2. Table' = Abstract!With(Table, op[a].id, op[a].status)
    BY <1>3, <1>9 DEF Apply, Abstract!With
  <2>3. Pending(a) /\ op[a].id \in ids \ DOMAIN Table
    BY <1>1, <1>9 DEF Pending, IdInv
  <2>4. DOMAIN Table' = DOMAIN Table \cup {op[a].id}
    BY <2>2 DEF Abstract!With
  <2>5. \A b \in Actors : Pending(b)' => b # a /\ Pending(b) /\ op'[b] = op[b]
    BY <1>1 DEF Pending
  <2>6. IdInv'
    BY <1>1, <2>3, <2>4, <2>5 DEF IdInv
  <2>7. QED
    BY <1>5, <1>6, <2>1, <2>2, <2>3, <2>6 DEF Abstract!Next, Abstract!Add
<1>10. QED
  BY <1>4, <1>7, <1>8, <1>9 DEF Ops, Put, Remove

\* A process that dies between the truncation and the write.
LEMMA TearStep ==
  ASSUME StoreInv, NEW a \in Actors, "tear" \in StoreFaults, stage[a] = "truncated", Leave(a)
  PROVE  StoreInv' /\ Abstract!Next
<1>. USE DEF StoreInv, Shape
<1>1. /\ stage' = [stage EXCEPT ![a] = "idle"]
      /\ lock' = IF lock = a THEN NoActor ELSE lock
      /\ UNCHANGED <<file, op, seen, ids>>
  BY DEF Leave
<1>2. lock = a /\ lock' = NoActor /\ file = NoSessions
  BY <1>1 DEF LockInv, Holding, SeenInv
<1>3. Table' = NoSessions
  BY <1>1, <1>2 DEF Table
<1>4. Shape' /\ LockInv'
  BY <1>1, <1>2 DEF LockInv, Holding
<1>5. SeenInv'
  BY <1>1 DEF SeenInv
<1>6. IdInv'
  BY <1>1, <1>3, EmptyTable DEF IdInv, Pending
<1>7. Abstract!Next
  BY <1>3 DEF Abstract!Next, Abstract!Lose, Abstract!Empty, NoSessions
<1>8. QED
  BY <1>4, <1>5, <1>6, <1>7

\* Each step keeps the invariant and is one of the table's, or none.
LEMMA NextStep ==
  ASSUME StoreInv, [StoreNext]_storeVars
  PROVE  StoreInv' /\ [Abstract!Next]_Table
<1>1. CASE UNCHANGED storeVars
  BY <1>1 DEF storeVars, StoreInv, Shape, LockInv, SeenInv, IdInv, Pending, Table
<1>2. ASSUME NEW a \in Actors, NEW q \in Ops, Begin(a, q)
      PROVE  StoreInv' /\ Table' = Table
  BY <1>2, BeginStep
<1>3. ASSUME NEW a \in Actors, Step(a)
      PROVE  StoreInv' /\ (Abstract!Next \/ Table' = Table)
  BY <1>3, QuietStep, TruncateStep, WriteStep DEF Step
<1>4. ASSUME NEW a \in Actors, Crash(a)
      PROVE  StoreInv' /\ (Abstract!Next \/ Table' = Table)
  BY <1>4, QuietStep, TearStep DEF Crash
<1>5. QED
  BY <1>1, <1>2, <1>3, <1>4 DEF StoreNext

\* The read-modify-write under the lock, with processes that die anywhere,
\* implements the table of SessionTable: no update is lost.
THEOREM Atomic == StoreSpec => ImplementsTable
<1>1. StoreInit => StoreInv /\ Abstract!Init
  BY InitIInv
<1>2. StoreInv /\ [StoreNext]_storeVars => StoreInv' /\ [Abstract!Next]_Table
  BY NextStep
<1>3. QED
  BY <1>1, <1>2, PTL DEF StoreSpec, ImplementsTable, Abstract!Spec

\* Nobody is told that a session does not exist because it looked at a file
\* that another process had truncated.
THEOREM NotFound == StoreSpec => []NotFoundIsTrue
<1>1. StoreInit => StoreInv
  BY InitIInv
<1>2. StoreInv /\ [StoreNext]_storeVars => StoreInv'
  BY NextStep
<1>3. StoreInv => NotFoundIsTrue
  BY DEF StoreInv, LockInv, SeenInv, NotFoundIsTrue, Found, Holding
<1>4. QED
  BY <1>1, <1>2, <1>3, PTL DEF StoreSpec
=============================================================================
