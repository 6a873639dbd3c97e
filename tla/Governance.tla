----------------------------- MODULE Governance -----------------------------
(***************************************************************************)
(* The governance simulator of a node (core/relay-chain/governance) with   *)
(* its callers in cmd/relay/main.go: the sample proposal made at the start,*)
(* the votes simulated for it, and the operator's commands "proposal",     *)
(* "vote" and "exit".  A proposal's ID is the second it was submitted in,  *)
(* so that one submitted in the same second takes its place.  Goroutines   *)
(* may be late by any time.  The log of events is not kept.                *)
(***************************************************************************)
EXTENDS Naturals, Functions

CONSTANTS
  Validator,      \* addresses of the mock validators, all of them active
  Power,          \* their voting power
  CLIVoter,       \* whom the operator's votes are cast for: "cli-validator"
  Delay,          \* from the submission to the start of voting: a day
  VotingPeriod,   \* params.VotingPeriod: a week
  MaxTime,        \* bound: the last time considered
  MaxTallies,     \* bound: tallying goroutines of a proposal
  None            \* no proposal, vote or choice

Time == 0 .. MaxTime

VotingStart(id) == id + Delay
VotingEnd(id) == VotingStart(id) + VotingPeriod

\* Bound: submissions early enough for the vote to end.
ID == {t \in Time : VotingEnd(t) < MaxTime}

ASSUME GovernanceAssumption ==
  /\ Power \in [Validator -> Nat]
  /\ Delay \in Nat /\ VotingPeriod \in Nat
  /\ MaxTime \in Nat /\ MaxTallies \in Nat

ProposalType == {"parameter_change", "upgrade", "treasury", "other"}
VoteOption == {"yes", "no", "abstain", "no_with_veto"}
Decided == {"passed", "rejected"}

Proposal ==
  [type : ProposalType, status : {"pending", "active"} \cup Decided,
   votes : [Validator -> VoteOption \cup {None}]]

ASSUME NoneAssumption == None \notin ID /\ None \notin Proposal /\ None \notin VoteOption

VARIABLES
  now,         \* time
  proposals,   \* gs.proposals, by the time in the ID
  running,     \* the process runs, and gs.ctx is not done
  tallies,     \* goroutines about to tally a proposal
  sample,      \* the sample's goroutine: "asleep", "waiting", "voting" or "done"
  ballot,      \* its proposal's ID, and SimulateVoting's type and remaining voters
  choice       \* the proposal the operator votes on

cliVars == <<choice>>
sampleVars == <<sample, ballot>>
govVars == <<now, proposals, running, tallies, sampleVars, cliVars>>

Ballot == [id : ID, type : ProposalType, left : SUBSET Validator]

GovInit ==
  /\ now = 0
  /\ proposals = [id \in ID |-> None]
  /\ running = TRUE
  /\ tallies = [id \in ID |-> 0]
  /\ sample = "asleep" /\ ballot = None
  /\ choice = None

\* The powers of those who gave one of the options.
PowerOf(votes, options) ==
  SumFunctionOnSet(Power, {v \in Validator : votes[v] \in options})

TotalPower == SumFunctionOnSet(Power, Validator)

\* Quorum 33.4 %, veto 33.4 % and majority 50 % of what was voted, in thousandths.
Outcome(votes) ==
  LET voted == PowerOf(votes, VoteOption)
      quorum == 1000 * voted >= 334 * TotalPower
      vetoed == 1000 * PowerOf(votes, {"no_with_veto"}) >= 334 * voted
      majority == 1000 * PowerOf(votes, {"yes"}) >= 500 * voted
  IN IF quorum /\ ~vetoed /\ majority THEN "passed" ELSE "rejected"
-----------------------------------------------------------------------------
SubmitProposal(type) ==
  /\ now \in ID
  /\ proposals' = [proposals EXCEPT ![now] =
       [type |-> type, status |-> "pending", votes |-> [v \in Validator |-> None]]]

FaultyMayVote(id, voter) ==
  /\ proposals[id] # None
  /\ voter \in Validator
  /\ now >= VotingStart(id)

\* Whether CastVote accepts a vote for the address.
MayVote(id, voter) ==
  /\ proposals[id] # None
  /\ voter \in Validator
  /\ now >= VotingStart(id)
  /\ now <= VotingEnd(id)

CastVote(id, voter, option) ==
  proposals' = IF MayVote(id, voter)
               THEN [proposals EXCEPT ![id].votes[voter] = option]
               ELSE proposals

\* Five seconds after the start, and two seconds later.
SubmitSample ==
  /\ sample = "asleep"
  /\ SubmitProposal("parameter_change")
  /\ sample' = "waiting"
  /\ ballot' = [id |-> now, type |-> "parameter_change", left |-> {}]
  /\ UNCHANGED <<now, running, tallies, choice>>

SimulateVoting ==
  /\ sample = "waiting"
  /\ ballot' = [ballot EXCEPT !.type = proposals[ballot.id].type, !.left = Validator]
  /\ sample' = "voting"
  /\ UNCHANGED <<now, proposals, running, tallies, choice>>

\* What a simulated validator may choose: never a veto.
Choices(type) ==
  CASE type = "parameter_change" -> {"yes", "no"}
    [] type = "upgrade" -> {"yes", "abstain"}
    [] type = "treasury" -> {"yes", "no", "abstain"}
    [] OTHER -> {"yes", "no"}

\* One round of its loop: a validator does not take part, or votes.  Whether the
\* vote was accepted is not looked at.
SimulateVote ==
  /\ sample = "voting"
  /\ \E v \in ballot.left :
       /\ ballot' = [ballot EXCEPT !.left = @ \ {v}]
       /\ \/ UNCHANGED proposals
          \/ /\ proposals[ballot.id].votes[v] = None
             /\ \E option \in Choices(ballot.type) : CastVote(ballot.id, v, option)
       /\ sample' = IF ballot.left = {v} THEN "done" ELSE "voting"
  /\ UNCHANGED <<now, running, tallies, choice>>

CLIProposal ==
  /\ \E type \in ProposalType : SubmitProposal(type)
  /\ UNCHANGED <<now, running, tallies, sampleVars, choice>>

\* The operator is shown the active proposals and picks one, then an option.
CLIPick ==
  /\ choice = None
  /\ \E id \in ID :
       /\ proposals[id] # None
       /\ proposals[id].status = "active"
       /\ choice' = id
  /\ UNCHANGED <<now, proposals, running, tallies, sampleVars>>

CLIVote ==
  /\ choice # None
  /\ choice' = None
  /\ \E option \in VoteOption : CastVote(choice, CLIVoter, option)
  /\ UNCHANGED <<now, running, tallies, sampleVars>>

CLIExit ==
  /\ running' = FALSE
  /\ UNCHANGED <<now, proposals, tallies, sampleVars, choice>>
-----------------------------------------------------------------------------
FaultyOpened(id) ==
  LET p == proposals[id]
  IN IF p # None /\ p.status = "pending" /\ now > VotingStart(id) /\ now <= VotingEnd(id)
     THEN [p EXCEPT !.status = "active"] ELSE p

\* What the minute's round makes of a proposal.
Opened(id) ==
  LET p == proposals[id]
  IN IF p # None /\ p.status = "pending" /\ now > VotingStart(id)
     THEN [p EXCEPT !.status = "active"] ELSE p

Due(id) ==
  /\ proposals[id] # None
  /\ proposals[id].status = "active"
  /\ now > VotingEnd(id)

\* Until a tally has run, every round starts another.
processProposals ==
  /\ proposals' = [id \in ID |-> Opened(id)]
  /\ tallies' = [id \in ID |-> IF Due(id) /\ tallies[id] < MaxTallies
                                 THEN tallies[id] + 1 ELSE tallies[id]]
  /\ UNCHANGED <<now, running, sampleVars, choice>>

\* The votes and nothing else decide: neither the time nor the status is looked at.
TallyVotes(id) ==
  /\ tallies[id] > 0
  /\ tallies' = [tallies EXCEPT ![id] = @ - 1]
  /\ proposals' = [proposals EXCEPT ![id].status = Outcome(proposals[id].votes)]
  /\ UNCHANGED <<now, running, sampleVars, choice>>

Tick ==
  /\ now < MaxTime
  /\ now' = now + 1
  /\ UNCHANGED <<proposals, running, tallies, sampleVars, choice>>

GovNext ==
  /\ running
  /\ \/ SubmitSample \/ SimulateVoting \/ SimulateVote
     \/ CLIProposal \/ CLIPick \/ CLIVote \/ CLIExit
     \/ processProposals \/ Tick
     \/ \E id \in ID : TallyVotes(id)

GovSpec == GovInit /\ [][GovNext]_govVars

\* Time passes, the ticker ticks and goroutines run, as long as the process does.
GovFairness ==
  /\ WF_govVars(running /\ Tick)
  /\ WF_govVars(running /\ processProposals)
  /\ \A id \in ID : WF_govVars(running /\ TallyVotes(id))
-----------------------------------------------------------------------------
GovTypeOK ==
  /\ now \in Time
  /\ proposals \in [ID -> Proposal \cup {None}]
  /\ running \in BOOLEAN
  /\ tallies \in [ID -> 0 .. MaxTallies]
  /\ sample \in {"asleep", "waiting", "voting", "done"}
  /\ sample # "asleep" => ballot \in Ballot
  /\ choice \in ID \cup {None}

IsDecided(id) == proposals[id] # None /\ proposals[id].status \in Decided

\* The decision is always the one the votes call for: no vote is accepted after a
\* tally, late or repeated as the tallies of TallyVotes may be.
DecidedByVotes ==
  \A id \in ID :
    IsDecided(id) => proposals[id].status = Outcome(proposals[id].votes)

\* Every proposal is decided if the node keeps running, by the rounds and the tallies
\* they start.
ProposalsDecided ==
  []running => \A id \in ID : proposals[id] # None ~> IsDecided(id)
=============================================================================
