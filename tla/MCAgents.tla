------------------------------ MODULE MCAgents ------------------------------
EXTENDS AgentScenarios

CONSTANTS s1, s2

\* Schedules with times, and for one scenario an entry that is not a number, for the
\* other a title that is too long.  A manual schedule is left out: it differs from one
\* that is not to run by itself only in the columns set.
SomeContents ==
    LET fine == [sched |-> "timed", titles |-> "short"]
    IN [s \in {s1, s2} |->
          {fine, IF s = s1 THEN [fine EXCEPT !.sched = "broken"]
                 ELSE [fine EXCEPT !.titles = "long"]}]
=============================================================================
