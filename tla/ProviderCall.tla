---------------------------- MODULE ProviderCall ----------------------------
(***************************************************************************)
(* One buffered call of a provider (internal/llm): the loop of retry with  *)
(* its backoff (client.go), the round trip every provider shares           *)
(* (roundtrip.go), and how each of them takes the text out of a body       *)
(* (client.go, anthropic.go, gemini.go).                                   *)
(*                                                                         *)
(* What follows doOnce inside the same iteration, the classification of    *)
(* its error and the choice of the next backoff, is part of its action.    *)
(***************************************************************************)
EXTENDS Integers, Sequences, FiniteSets, SequencesExt

CONSTANTS
  Settings,      \* values of llm.max_retries
  BackoffBase,
  BackoffMax,
  WordBits,      \* the width of a time.Duration
  Statuses,      \* of the answers that are not 200
  Texts,         \* what a block of an answer may say
  Bodies         \* the bodies each provider may answer with

Providers == {"openai", "anthropic", "gemini"}

(* 2^n *)
Pow2(n) == LET doubled[i \in 0 .. n] == IF i = 0 THEN 1 ELSE 2 * doubled[i - 1] IN doubled[n]

(* The first wrap leaves a multiple of 2^s that is zero, or negative, or   *)
(* larger than BackoffMax; real values: 2 * 10^8 * 10^10 < 2^63.           *)
ASSUME BackoffAssumption ==
  /\ WordBits \in Nat \ {0} /\ BackoffBase \in Nat \ {0} /\ BackoffMax \in Nat
  /\ BackoffBase * BackoffMax < Pow2(WordBits - 1)

(* openai: one block for each choice; anthropic: one list of typed blocks; *)
(* gemini: the parts of each candidate.                                    *)
AllBodies ==
  [decodes : BOOLEAN, error : BOOLEAN,
   replies : Seq(Seq([type : {"text", "thinking"}, text : Texts \cup {<<>>}]))]
ASSUME BodiesAssumption ==
  /\ Bodies \in [Providers -> SUBSET AllBodies]
  /\ \A p \in Providers \ {"anthropic"} : \A b \in Bodies[p] :
       \A reply \in Range(b.replies) : \A block \in Range(reply) : block.type = "text"
ASSUME TextsAssumption == \A t \in Texts : t \in Seq(Range(t))
ASSUME SettingsAssumption == Settings \subseteq Int /\ Statuses \subseteq Nat \ {200}

VARIABLES
  provider,
  maxRetries,  \* Client.maxRetries
  call,        \* where retry is
  attempt,     \* its loop variable
  delay,       \* the backoff it sleeps
  cancelled,   \* the context is done: Ctrl-C or SIGTERM
  tries,       \* round trips under way or over
  answered,    \* responses with status 200 read to their end
  body,        \* the last of them
  text,        \* what the call returned
  failure      \* why it failed

callVars ==
  <<provider, maxRetries, call, attempt, delay, cancelled, tries, answered, body, text, failure>>
outcome == <<text, failure>>

Blank == [decodes |-> FALSE, error |-> FALSE, replies |-> <<>>]

(* NewClient, NewAnthropicClient, NewGeminiClient *)
Retries(setting) == IF setting < 0 THEN 0 ELSE setting

CallInit ==
  /\ provider \in Providers
  /\ \E setting \in Settings : maxRetries = Retries(setting)
  /\ call = "idle" /\ attempt = 0 /\ delay = 0 /\ cancelled = FALSE
  /\ tries = 0 /\ answered = 0 /\ body = Blank /\ text = <<>> /\ failure = "none"

-----------------------------------------------------------------------------
(* sleepWithBackoff, classifyStatus, the decoding half of doOnce *)

(* BackoffBase << (a - 1) in a signed word *)
Shifted(a) ==
  LET word == (BackoffBase * Pow2(a - 1)) % Pow2(WordBits)
  IN  IF word < Pow2(WordBits - 1) THEN word ELSE word - Pow2(WordBits)

(* Mutant: a delay that wrapped around to zero is kept. *)
BackoffZero(a) == IF Shifted(a) > BackoffMax \/ Shifted(a) < 0 THEN BackoffMax ELSE Shifted(a)

Backoff(a) == IF Shifted(a) > BackoffMax \/ Shifted(a) <= 0 THEN BackoffMax ELSE Shifted(a)
Jittered(d) == {d \div 2 + r : r \in 0 .. d \div 2}

RetryableStatus(code) == code = 429 \/ code >= 500

(* Mutant: the first block of an answer is taken for all of it. *)
FirstBlock(p, b) ==
  IF b.replies = <<>> \/ Head(b.replies) = <<>> THEN <<>> ELSE Head(Head(b.replies)).text

(* Anthropic's blocks that are not text are skipped. *)
Said(p, block) == IF p = "anthropic" /\ block.type # "text" THEN <<>> ELSE block.text

(* The text of the first choice or candidate. *)
Reply(p, b) ==
  IF b.replies = <<>> THEN <<>>
  ELSE LET blocks == Head(b.replies) IN FlattenSeq([i \in DOMAIN blocks |-> Said(p, blocks[i])])

Usable(p, b) == b.decodes /\ ~b.error /\ Reply(p, b) # <<>>

-----------------------------------------------------------------------------
(* retry *)

Fails(why) == call' = "failed" /\ failure' = why /\ UNCHANGED <<text, attempt, delay>>

(* Mutant: the last retry is left out. *)
RetriesOneLess(why) ==
  IF ~cancelled /\ attempt + 1 < maxRetries
  THEN /\ call' = "backoff" /\ attempt' = attempt + 1
       /\ delay' \in Jittered(Backoff(attempt + 1))
       /\ UNCHANGED outcome
  ELSE Fails(IF cancelled THEN "cancelled" ELSE why)

(* A retryable failure of an attempt. *)
RetriesOr(why) ==
  IF ~cancelled /\ attempt < maxRetries
  THEN /\ call' = "backoff" /\ attempt' = attempt + 1
       /\ delay' \in Jittered(Backoff(attempt + 1))
       /\ UNCHANGED outcome
  ELSE Fails(IF cancelled THEN "cancelled" ELSE why)

CallStarts ==
  /\ call = "idle" /\ call' = "ready"
  /\ UNCHANGED <<provider, maxRetries, attempt, delay, cancelled, tries, answered, body, text, failure>>

(* http.Client.Do, when the context is not done as it looks.  What it      *)
(* writes to the network, and when, is part of the flight: a cancellation  *)
(* may still come before that.                                             *)
Try ==
  /\ call = "ready" /\ ~cancelled
  /\ call' = "flying" /\ tries' = tries + 1
  /\ UNCHANGED <<provider, maxRetries, attempt, delay, cancelled, answered, body, text, failure>>

(* http.Client.Do returns at once when its context is done. *)
Refused ==
  /\ call = "ready" /\ cancelled
  /\ Fails("cancelled")
  /\ UNCHANGED <<provider, maxRetries, cancelled, tries, answered, body>>

(* No connection, a reset, or the client's timeout before the headers. *)
TransportFails ==
  /\ call = "flying"
  /\ RetriesOr("network")
  /\ UNCHANGED <<provider, maxRetries, cancelled, tries, answered, body>>

(* The headers came, the rest of the body did not. *)
BodyFails ==
  /\ call = "flying"
  /\ Fails(IF cancelled THEN "cancelled" ELSE "read")
  /\ UNCHANGED <<provider, maxRetries, cancelled, tries, answered, body>>

StatusError(code) ==
  /\ call = "flying"
  /\ IF RetryableStatus(code) THEN RetriesOr("busy")
     ELSE Fails(IF cancelled THEN "cancelled" ELSE "rejected")
  /\ UNCHANGED <<provider, maxRetries, cancelled, tries, answered, body>>

(* Mutant: an answer without text is asked for again. *)
AnswersRetried(b) ==
  /\ call = "flying"
  /\ answered' = answered + 1 /\ body' = b
  /\ IF Usable(provider, b)
     THEN call' = "ok" /\ text' = Reply(provider, b) /\ UNCHANGED <<failure, attempt, delay>>
     ELSE RetriesOr("empty")
  /\ UNCHANGED <<provider, maxRetries, cancelled, tries>>

(* An answer counts even if the context is done by now. *)
Answers(b) ==
  /\ call = "flying"
  /\ answered' = answered + 1 /\ body' = b
  /\ IF Usable(provider, b)
     THEN call' = "ok" /\ text' = Reply(provider, b) /\ UNCHANGED <<failure, attempt, delay>>
     ELSE Fails("empty")
  /\ UNCHANGED <<provider, maxRetries, cancelled, tries>>

BackoffElapses ==
  /\ call = "backoff" /\ call' = "ready"
  /\ delay' = 0
  /\ UNCHANGED <<provider, maxRetries, attempt, cancelled, tries, answered, body, text, failure>>

BackoffCancelled ==
  /\ call = "backoff" /\ cancelled
  /\ Fails("cancelled")
  /\ UNCHANGED <<provider, maxRetries, cancelled, tries, answered, body>>

(* Ctrl-C, at any moment of the call *)
Cancel ==
  /\ ~cancelled /\ call \notin {"ok", "failed"}
  /\ cancelled' = TRUE
  /\ UNCHANGED <<provider, maxRetries, call, attempt, delay, tries, answered, body, text, failure>>

Flight ==
  \/ TransportFails
  \/ BodyFails
  \/ \E code \in Statuses : StatusError(code)
  \/ \E b \in Bodies[provider] : Answers(b)

Own == Try \/ Refused \/ BackoffElapses \/ BackoffCancelled

(* Mutant: a request is built without the context. *)
GoesOn == FALSE

(* The request carries the context: the transport gives it up. *)
Aborts == cancelled /\ Flight

CallNext == Own \/ Flight
Ended == call \in {"ok", "failed"}

-----------------------------------------------------------------------------
(* Between two attempts the call sleeps half to all of the exponential     *)
(* delay, capped, however large max_retries is: the shift of               *)
(* sleepWithBackoff may have wrapped around by then.                       *)
BackoffExact ==
  call = "backoff" =>
    LET exponential == BackoffBase * Pow2(attempt - 1)
        d == IF exponential > BackoffMax THEN BackoffMax ELSE exponential
    IN  delay \in d \div 2 .. d

(* What the provider answered is paid for: it is never asked again, and a  *)
(* text it sent is returned.                                               *)
AnswerKept ==
  /\ answered <= 1
  /\ call = "ok" <=> text # <<>>
  /\ answered = 1 /\ call = "failed" => failure = "empty"

(* Every block of text is in t, in its place, and nothing else.            *)
Whole(t, blocks) ==
  LET said == {i \in DOMAIN blocks : blocks[i].type = "text"}
      SaidBefore(i) ==
        Cardinality({m \in said \X (1 .. Len(t)) : m[1] < i /\ m[2] <= Len(blocks[m[1]].text)})
  IN  /\ Len(t) = SaidBefore(Len(blocks) + 1)
      /\ \A i \in said : SubSeq(t, SaidBefore(i) + 1, SaidBefore(i) + Len(blocks[i].text)) = blocks[i].text

(* A text is returned whole: every block of the first choice or candidate  *)
(* that is text is in it, and nothing else.                                *)
AnswerWhole == call = "ok" => Whole(text, Head(body.replies))

(* "Giving up" comes after every attempt the settings allow, and only if   *)
(* all of them failed in a way that may pass.                              *)
GivesUp == failure \in {"network", "busy"} => tries = maxRetries + 1
=============================================================================
