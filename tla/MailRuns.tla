-------------------------------- MODULE MailRuns --------------------------------
(***************************************************************************)
(* mail_runtime.py and mail_ops.py: the three prepared mail mutations while *)
(* change.apply runs them.  A send hands the prepared message to the SMTP   *)
(* server, files a copy in the IMAP Sent folder and, only if that failed,   *)
(* sends one to the fallback address.  A detection probes the IMAP account  *)
(* and records its Sent folder; a settings change sets the fallback.  Each  *)
(* network exchange is a job of the executor, so other runs, the options    *)
(* flow and a reconfigured SMTP entry come between any two steps.           *)
(*                                                                          *)
(* A send and a detection are services of Home Assistant.  They ask only    *)
(* that the prepared mutation is in flight, so while its apply is under way *)
(* a further call of the service runs the same material once more.          *)
(*                                                                          *)
(* There is one SMTP and one IMAP account.  A record of the Sent folder     *)
(* carries the time it was verified, so it is named by the run that made it.*)
(***************************************************************************)
EXTENDS Naturals, FiniteSets

CONSTANTS Runs,         \* runs of prepared mail mutations, and further calls
          Addresses,    \* as clients and options spell them
          Boxes,        \* casefolded addresses: one mailbox each
          Box,          \* the mailbox of an address
          Lists,        \* the addresses in To and Cc of the mails that are sent
          Archives,     \* addresses that are configured as the fallback
          Senders,      \* sender addresses of the SMTP entry
          MaxEdits      \* bound on changes made elsewhere, for TLC only

VARIABLES options,      \* options of the One Bridge entry: fallback, folder record
          sender,       \* what the SMTP entry is configured to send as
          place,           \* where each run is
          job,          \* its kind and material, and the prepared mutation
          accepted,     \* recipients the SMTP server accepted
          saved,        \* sent_saved
          copied,       \* fallback_copy_sent
          outcome,      \* recorded outcome of the run
          copies,       \* history: messages of the run in each mailbox
          filed,        \* history: the Sent folder holds the run's message
          edits

send == <<accepted, saved, copied, copies, filed>>
mailVars == <<options, sender, place, job, outcome, send, edits>>

None == "none"

ASSUME BoxAssumption == /\ Box \in [Addresses -> Boxes]
                        /\ Lists \subseteq SUBSET Addresses \ {{}}
                        /\ \A list \in Lists : IsFiniteSet(list)
                        /\ Archives \subseteq Addresses
                        /\ None \notin Addresses \cup Runs
                        /\ MaxEdits \in Nat

Records == Runs \cup {None, "initial"}
Fallbacks == Archives \cup {None}
Options == [fallback : Fallbacks, folder : Records]
MailKinds == {"send", "detect", "settings"}

MailInit == /\ options \in [fallback : Fallbacks, folder : {None, "initial"}]
            /\ sender \in Senders
            /\ place = [a \in Runs |-> "idle"]
            /\ job = [a \in Runs |-> [kind |-> None]]
            /\ accepted = [a \in Runs |-> {}]
            /\ saved = [a \in Runs |-> FALSE]
            /\ copied = [a \in Runs |-> FALSE]
            /\ outcome = [a \in Runs |-> None]
            /\ copies = [a \in Runs |-> [b \in Boxes |-> 0]]
            /\ filed = [a \in Runs |-> FALSE]
            /\ edits = 0
---------------------------------------------------------------------------------
Kind(a) == job[a].kind

Moves(a, from, to) == /\ place[a] = from
                      /\ place' = [place EXCEPT ![a] = to]

Closes(a, o) == /\ place' = [place EXCEPT ![a] = "done"]
                /\ outcome' = [outcome EXCEPT ![a] = o]

BoxesOf(addresses) == {Box[x] : x \in addresses}

Delivers(a, addresses) ==
    copies' = [copies EXCEPT ![a] = [b \in Boxes |->
                 @[b] + Cardinality({x \in addresses : Box[x] = b})]]

Elsewhere == UNCHANGED <<options, sender, edits>>

\* Recipients are deduplicated by their casefolded form; the first spelling stays.
Deduplicated(wanted, recipients) ==
    /\ BoxesOf(recipients) = BoxesOf(wanted)
    /\ Cardinality(recipients) = Cardinality(BoxesOf(wanted))

\* The options are read before the first await: the material is of one moment.
PrepareSend(a, wanted, recipients) ==
    /\ Moves(a, "idle", "prepared")
    /\ Deduplicated(wanted, recipients)
    /\ options.folder # None
    /\ job' = [job EXCEPT ![a] =
                 [kind |-> "send", mail |-> a,
                  sender |-> sender, recipients |-> recipients,
                  fallback |-> options.fallback, folder |-> options.folder]]
    /\ UNCHANGED <<outcome, send>> /\ Elsewhere

PrepareDetect(a) ==
    /\ Moves(a, "idle", "prepared")
    /\ job' = [job EXCEPT ![a] = [kind |-> "detect", mail |-> a,
                                  folder |-> options.folder]]
    /\ UNCHANGED <<outcome, send>> /\ Elsewhere

\* after_options: all options as they are now, with the new fallback.
PrepareSettings(a, fallback) ==
    /\ Moves(a, "idle", "prepared")
    /\ job' = [job EXCEPT ![a] =
                 [kind |-> "settings", mail |-> a,
                  options |-> [options EXCEPT !.fallback = fallback]]]
    /\ UNCHANGED <<outcome, send>> /\ Elsewhere

\* A service begins with what was prepared, or refuses it at once.
Begins(a, unchanged, to) ==
    \/ unchanged /\ place' = [place EXCEPT ![a] = to] /\ UNCHANGED outcome
    \/ ~unchanged /\ Closes(a, "not_applied")

\* The entries exist, and the sender is still the one that was prepared.
BeginsSend(a, material) == Begins(a, sender = material.sender, "submit")

StartSend(a) ==
    /\ place[a] = "prepared" /\ Kind(a) = "send"
    /\ BeginsSend(a, job[a])
    /\ UNCHANGED <<job, send>> /\ Elsewhere

\* The server takes the message for some of the recipients.
SubmitAccepted(a) ==
    /\ Moves(a, "submit", "archive")
    /\ \E some \in SUBSET job[a].recipients :
          /\ some # {}
          /\ Delivers(a, some)
          /\ accepted' = [accepted EXCEPT ![a] = some]
    /\ UNCHANGED <<job, outcome, saved, copied, filed>> /\ Elsewhere

\* It refuses all of them, the login or the data, or there is no SMTP runtime.
SubmitRejected(a) ==
    /\ place[a] = "submit"
    /\ Closes(a, "not_applied")
    /\ UNCHANGED <<job, send>> /\ Elsewhere

\* Mutant of SubmitLost: the lost connection counts as a rejection.
LostIsRejected(a) ==
    /\ place[a] = "submit"
    /\ \E some \in SUBSET job[a].recipients : Delivers(a, some)
    /\ Closes(a, "not_applied")
    /\ UNCHANGED <<job, accepted, saved, copied, filed>> /\ Elsewhere

\* The connection disappears, perhaps after the server took the message.
SubmitLost(a) ==
    /\ place[a] = "submit"
    /\ \E some \in SUBSET job[a].recipients : Delivers(a, some)
    /\ Closes(a, "unknown")
    /\ UNCHANGED <<job, accepted, saved, copied, filed>> /\ Elsewhere

\* IMAP APPEND to the prepared folder.  A failed one may have stored the message;
\* an error that is not a contract error ends the run.
Archive(a) ==
    /\ place[a] = "archive"
    /\ \E stored \in BOOLEAN : filed' = [filed EXCEPT ![a] = stored]
    /\ \/ /\ filed'[a]
          /\ saved' = [saved EXCEPT ![a] = TRUE]
          /\ place' = [place EXCEPT ![a] = "report"] /\ UNCHANGED outcome
       \/ /\ place' = [place EXCEPT ![a] =
                      IF job[a].fallback = None THEN "report" ELSE "fallback"]
          /\ UNCHANGED <<saved, outcome>>
       \/ Closes(a, "unknown") /\ UNCHANGED saved
    /\ UNCHANGED <<job, accepted, copied, copies>> /\ Elsewhere

FallbackBox(a) == Box[job[a].fallback]

\* Mutant of NeedsCopy: the recipients that accepted the mail are forgotten.
CopiesToAccepted(a) ==
    FallbackBox(a) \notin BoxesOf(job[a].recipients \ accepted[a])

NeedsCopy(a) == FallbackBox(a) \notin BoxesOf(job[a].recipients)

\* An accepted recipient has its copy already; a refused one is not tried again.
SkipFallback(a) ==
    /\ Moves(a, "fallback", "report")
    /\ ~NeedsCopy(a)
    /\ copied' = [copied EXCEPT ![a] = FallbackBox(a) \in BoxesOf(accepted[a])]
    /\ UNCHANGED <<job, outcome, accepted, saved, copies, filed>> /\ Elsewhere

\* Mutant of SendFallback: the copy goes to the address of the present options.
SendPresentFallback(a) ==
    /\ Moves(a, "fallback", "report")
    /\ NeedsCopy(a)
    /\ options.fallback # None
    /\ Delivers(a, {options.fallback})
    /\ copied' = [copied EXCEPT ![a] = TRUE]
    /\ UNCHANGED <<job, outcome, accepted, saved, filed>> /\ Elsewhere

\* Accepted; refused; or lost, before or after the server took it.
SendFallback(a) ==
    /\ Moves(a, "fallback", "report")
    /\ NeedsCopy(a)
    /\ \/ /\ Delivers(a, {job[a].fallback})
          /\ copied' = [copied EXCEPT ![a] = TRUE]
       \/ UNCHANGED <<copies, copied>>
       \/ Delivers(a, {job[a].fallback}) /\ UNCHANGED copied
    /\ UNCHANGED <<job, outcome, accepted, saved, filed>> /\ Elsewhere

\* Mutant of Complete: refused recipients are not looked at.
ArchivedIsComplete(a) == saved[a] \/ copied[a]

Complete(a) == accepted[a] = job[a].recipients /\ (saved[a] \/ copied[a])

\* An incomplete send raises MAIL_SEND_INCOMPLETE, marked applied_unverified.
Report(a) ==
    /\ place[a] = "report"
    /\ Closes(a, IF Complete(a) THEN "applied_verified" ELSE "applied_unverified")
    /\ UNCHANGED <<job, send>> /\ Elsewhere

FolderUnchanged(a) == options.folder = job[a].folder

BeginsDetect(a, material) == Begins(a, options.folder = material.folder, "probe")

StartDetect(a) ==
    /\ place[a] = "prepared" /\ Kind(a) = "detect"
    /\ BeginsDetect(a, job[a])
    /\ UNCHANGED <<job, send>> /\ Elsewhere

\* The apply of prepared mutation a is inside its service call.
InFlight(a) == /\ place[a] \in {"submit", "archive", "fallback", "report", "probe", "record"}
               /\ job[a].mail = a

\* Call b of the service names prepared mutation a, which is in flight.
CallAgain(b, a) ==
    /\ place[b] = "idle" /\ InFlight(a)
    /\ \/ Kind(a) = "send" /\ BeginsSend(b, job[a])
       \/ Kind(a) = "detect" /\ BeginsDetect(b, job[a])
    /\ job' = [job EXCEPT ![b] = job[a]]
    /\ UNCHANGED send /\ Elsewhere

\* APPEND and read-back of the candidates: one verifies, or none does.
Probe(a) ==
    /\ place[a] = "probe"
    /\ \/ place' = [place EXCEPT ![a] = "record"] /\ UNCHANGED outcome
       \/ Closes(a, "not_applied")
    /\ UNCHANGED <<job, send>> /\ Elsewhere

\* Mutant of RecordFolder: the records are not compared again after the probe.
RecordAnyway(a) ==
    /\ place[a] = "record"
    /\ options' = [options EXCEPT !.folder = a]
    /\ Closes(a, "applied_verified")
    /\ UNCHANGED <<job, send, sender, edits>>

\* The second comparison, the write into the present options and its check.
RecordFolder(a) ==
    /\ place[a] = "record"
    /\ \/ /\ FolderUnchanged(a)
          /\ options' = [options EXCEPT !.folder = a]
          /\ Closes(a, "applied_verified")
       \/ ~FolderUnchanged(a) /\ Closes(a, "not_applied") /\ UNCHANGED options
    /\ UNCHANGED <<job, send, sender, edits>>

\* config_entry.update writes the prepared options.
ApplySettings(a) ==
    /\ place[a] = "prepared" /\ Kind(a) = "settings"
    /\ options' = job[a].options
    /\ Closes(a, "applied_unverified")
    /\ UNCHANGED <<job, send, sender, edits>>

\* The options flow merges the user's fallback into the present options.
UserSetsFallback(fallback) ==
    /\ edits < MaxEdits
    /\ edits' = edits + 1
    /\ options' = [options EXCEPT !.fallback = fallback]
    /\ UNCHANGED <<sender, place, job, outcome, send>>

SenderChanges(s) ==
    /\ edits < MaxEdits
    /\ edits' = edits + 1
    /\ sender' = s
    /\ UNCHANGED <<options, place, job, outcome, send>>

Step(a) == \/ StartSend(a) \/ SubmitAccepted(a) \/ SubmitRejected(a) \/ SubmitLost(a)
           \/ Archive(a) \/ SkipFallback(a) \/ SendFallback(a) \/ Report(a)
           \/ StartDetect(a) \/ Probe(a) \/ RecordFolder(a)
           \/ ApplySettings(a)

Prepare(a) == \/ \E wanted \in Lists : \E recipients \in SUBSET wanted :
                    PrepareSend(a, wanted, recipients)
              \/ PrepareDetect(a)
              \/ \E fallback \in Fallbacks : PrepareSettings(a, fallback)

MailNext == \/ \E a \in Runs : Prepare(a) \/ Step(a)
            \/ \E a, b \in Runs : CallAgain(b, a)
            \/ \E fallback \in Fallbacks : UserSetsFallback(fallback)
            \/ \E s \in Senders : SenderChanges(s)

MailSpec == MailInit /\ [][MailNext]_mailVars
---------------------------------------------------------------------------------
MailTypeOK == /\ options \in Options
              /\ sender \in Senders
              /\ \A a \in Runs : place[a] # "idle" => Kind(a) \in MailKinds
              /\ \A a \in Runs : accepted[a] # {} =>
                    Kind(a) = "send" /\ accepted[a] \subseteq job[a].recipients
              /\ \A a \in Runs : place[a] = "done" <=> outcome[a] # None
              /\ edits \in 0..MaxEdits

Sends(a) == place[a] # "idle" /\ Kind(a) = "send"

(* One call of the send service brings no mailbox the mail twice, however  *)
(* its address is spelled and whether the archive copy goes to a recipient *)
(* ("a second copy would only create a duplicate", mail_ops.py:1031).      *)
(* What two calls for one prepared mail do together is SentOnce.           *)
NoSecondCopy == \A a \in Runs, b \in Boxes : copies[a][b] <= 1

(* A call that reports not_applied, so that the key of its apply may be    *)
(* used again, has reached nobody itself.                                  *)
NotAppliedUndelivered ==
    \A a \in Runs : outcome[a] = "not_applied" => \A b \in Boxes : copies[a][b] = 0

(* A verified call has brought the mail to every recipient that was        *)
(* reviewed, once, and there is an archive copy: in Sent or with the       *)
(* reviewed fallback.                                                      *)
VerifiedComplete ==
    \A a \in Runs : Sends(a) /\ outcome[a] = "applied_verified" =>
        /\ \A r \in job[a].recipients : copies[a][Box[r]] = 1
        /\ filed[a] \/ copies[a][FallbackBox(a)] = 1

(* A mailbox that is not a recipient's gets the mail only as the archive   *)
(* of last resort: it is the reviewed fallback's, whatever the options say *)
(* now, somebody accepted the mail, and no copy is known to be in Sent.    *)
OnlyReviewed ==
    \A a \in Runs, b \in Boxes : copies[a][b] > 0 /\ b \notin BoxesOf(job[a].recipients) =>
        /\ job[a].fallback # None /\ b = FallbackBox(a)
        /\ accepted[a] # {} /\ ~saved[a]

(* "Mutations ... are single-use" (SECURITY.md:12): over all calls of the  *)
(* service for one prepared mail, no mailbox gets it from two of them.     *)
SentOnce ==
    \A c, d \in Runs : c # d /\ Sends(c) /\ Sends(d) /\ job[c].mail = job[d].mail =>
        \A b \in Boxes : copies[c][b] = 0 \/ copies[d][b] = 0

Finishes(a) == place[a] # "done" /\ place'[a] = "done"

(* A detection replaces only the record its client reviewed, although      *)
(* other runs may have recorded a folder during its probe, and leaves the  *)
(* rest of the options as they are.                                        *)
DetectKeepsOthers ==
    [][\A a \in Runs :
         Finishes(a) /\ Kind(a) = "detect" /\ outcome'[a] = "applied_verified" =>
            options.folder = job[a].folder /\ options'.fallback = options.fallback]_mailVars

(* "Apply updates the One Bridge config-entry options by merging this      *)
(* single mail setting into the existing options"                          *)
(* (mail_operations.v2.json:328): the Sent folder survives it.             *)
SettingsMerge ==
    [][\A a \in Runs : Finishes(a) /\ Kind(a) = "settings" =>
          options'.folder = options.folder]_mailVars
=================================================================================
