------------------------------ MODULE MCFixtures ------------------------------
(***************************************************************************)
(* The same question is put to a directory of recorded answers and, with   *)
(* other things beside role and content, to the same directory with its    *)
(* files named in another order.                                           *)
(***************************************************************************)
EXTENDS RuleCalls, Fixtures, Functions

CONSTANTS Questions,      \* [model, messages]: what is asked
          Directories     \* the directories of recorded answers

VARIABLES asked, files, given, givenAgain

fixtureVars == <<asked, files, given, givenAgain>>

DigestOf(q) == request_hash(q.model, q.messages)
Reordered(d) == {[i \in DOMAIN d |-> d[p[i]]] : p \in Bijection(DOMAIN d, DOMAIN d)}

\* What the messages say, whatever else they carry.
Said(messages) == [i \in DOMAIN messages |-> <<messages[i].role, messages[i].content>>]

\* No two files of a directory have the same name, and a name or a hash that is
\* no digest is no question's.
ASSUME FixturesAssumption ==
    /\ \A d \in Directories :
          /\ Len(d) \in Nat /\ DOMAIN d = 1..Len(d)
          /\ \A i, j \in DOMAIN d : d[i].stem = d[j].stem /\ d[i].stem # NoDigest => i = j
    /\ \A q \in Questions : DigestOf(q) # NoDigest /\ q.model # NoModel

Message(content, extra) == [dict |-> TRUE, role |-> "user", content |-> content, extra |-> extra]
NoObject == [dict |-> FALSE, role |-> "none", content |-> "none", extra |-> "none"]
Question(content, extra) == [model |-> "m", messages |-> <<Message(content, extra)>>]
SomeQuestions == {Question(content, extra) : content \in {"a", "b", "c", "d"}, extra \in {"none", "id"}}

File(stem, form, hash, model, messages, content, response) ==
    [stem |-> stem, form |-> form, hash |-> hash, model |-> model, messages |-> messages,
     body |-> [content |-> content, response |-> response]]
Digest(content) == DigestOf(Question(content, "none"))

\* Recorded for "a" by its messages, for "b" by its hash and "c" by its name; one
\* that answers null, ones that are no object or not JSON.
Recorded == {File(NoDigest, "object", NoDigest, "m", <<NoObject, Message("a", "tool")>>, "answer a", "absent"),
             File(NoDigest, "object", Digest("b"), NoModel, <<>>, "absent", "answer b"),
             File(NoDigest, "object", Digest("b"), NoModel, <<>>, "null", "answer b"),
             File(Digest("c"), "list", NoDigest, NoModel, <<>>, "absent", "absent"),
             File(Digest("c"), "object", NoDigest, NoModel, <<>>, "answer c", "absent"),
             File(NoDigest, "list", NoDigest, NoModel, <<>>, "absent", "absent"),
             File(NoDigest, "broken", NoDigest, NoModel, <<>>, "absent", "absent")}

SomeDirectories == {d \in UNION {[1..n -> Recorded] : n \in 0..3} : \A i, j \in DOMAIN d :
                       d[i] = d[j] \/ (d[i].stem = d[j].stem /\ d[i].stem # NoDigest) => i = j}

NoQuestion == [model |-> NoModel, messages |-> <<>>]
NoReply == [code |-> 200, content |-> "default"]

FixtureInit == phase = "idle" /\ asked = NoQuestion /\ files = <<>> /\ given = NoReply /\ givenAgain = NoReply

Ask(q, again, d, e) == /\ phase' = "recorded" /\ asked' = q /\ files' = d
                       /\ given' = completion(q.model, q.messages, d)
                       /\ givenAgain' = completion(again.model, again.messages, e)

FixtureDone == /\ phase = "recorded" /\ phase' = "idle"
               /\ asked' = NoQuestion /\ files' = <<>> /\ given' = NoReply /\ givenAgain' = NoReply

FixtureNext ==
    \/ phase = "idle" /\ \E q, again \in Questions, d \in Directories :
           /\ q.model = again.model /\ Said(q.messages) = Said(again.messages)
           /\ \E e \in Reordered(d) : Ask(q, again, d, e)
    \/ FixtureDone

FixtureSpec == FixtureInit /\ [][FixtureNext]_<<phase, fixtureVars>>

-----------------------------------------------------------------------------
\* The files recorded for the question, by whichever of the three ways.
RecordedFor(q) ==
    {i \in DOMAIN files :
        \/ files[i].stem = DigestOf(q)
        \/ files[i].form = "object" /\ files[i].hash = DigestOf(q)
        \/ /\ files[i].form = "object" /\ files[i].model = q.model
           /\ Said(typed_messages(files[i].messages)) = Said(q.messages)}

\* "Response chosen by sha256 of the normalized (model, messages)": where every
\* file is JSON and one is recorded for the question, its answer is given, and
\* where none is, the default, in whatever order the files are named and whatever
\* else the messages carry (lookup_fixture, request_hash).  A stray file that is not
\* JSON fails only questions that have no file of their own name.
RecordedIsAnswered ==
    phase = "recorded" =>
        /\ (\A i \in DOMAIN files : files[i].form # "broken") =>
              /\ RecordedFor(asked) = {} => given = NoReply /\ givenAgain = NoReply
              /\ \A i \in DOMAIN files : RecordedFor(asked) = {i} =>
                    /\ given = givenAgain /\ given.code = 200
                    /\ files[i].form = "object" =>
                          LET body == files[i].body
                          IN  /\ body.content \notin {"absent", "null"} => given.content = body.content
                              /\ body.content = "null" => given.content = "default"
                              /\ body.content = "absent" /\ body.response \notin {"absent", "null"} =>
                                     given.content = body.response
        /\ given.code = 500 =>
              \A i \in DOMAIN files : files[i].stem = DigestOf(asked) => files[i].form = "broken"
=============================================================================
