-------------------------------- MODULE AppShell --------------------------------
(***************************************************************************)
(* The badges of the sidebar, frontend components/AppShell.tsx: the counts *)
(* of listAllJobs are read at mount and every five seconds.  A poll is not *)
(* awaited by the next one, so replies may overtake each other.            *)
(***************************************************************************)
EXTENDS CampaignReads

CONSTANT MaxPolls   \* bound: polls under way at once

ASSUME ShellAssumption == MaxPolls \in Nat

VARIABLES
    badges,   \* counts
    polls     \* the replies under way; Null while not served

shellVars == <<badges, polls>>

Badges(counts) ==
    [scheduled |-> counts["SCHEDULED"] + counts["PROCESSING"], sent |-> counts["SENT"]]

ShellTypeOK ==
    /\ badges.scheduled \in Nat /\ badges.sent \in Nat
    /\ Len(polls) \in 0 .. MaxPolls

ShellMounts ==
    /\ badges = [scheduled |-> 0, sent |-> 0]
    /\ polls = <<>>

\* Mutant: no new poll until the badges show something.
MutPoll ==
    /\ polls = <<>> /\ badges.scheduled = 0
    /\ polls' = << Null >>
    /\ UNCHANGED badges

\* fetchCounts, at mount and when the interval fires.
Poll ==
    /\ Len(polls) < MaxPolls
    /\ polls' = Append(polls, Null)
    /\ UNCHANGED badges

ServePoll(i) ==
    /\ polls[i] = Null
    /\ polls' = [polls EXCEPT ![i] = Badges(Counts)]
    /\ UNCHANGED badges

PollArrives(i) ==
    /\ polls[i] # Null
    /\ badges' = polls[i]
    /\ polls' = RemoveAt(polls, i)

\* Silent: the badges stay.
PollFails(i) ==
    /\ polls[i] = Null
    /\ polls' = RemoveAt(polls, i)
    /\ UNCHANGED badges

ShellNext ==
    \/ Poll
    \/ \E i \in DOMAIN polls : ServePoll(i) \/ PollArrives(i) \/ PollFails(i)

BadgesRight == badges = Badges(Counts)
===============================================================================
