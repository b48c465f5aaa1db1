-------------------------------- MODULE MCBrowser --------------------------------
(* The frontend over five rows of three campaigns, two of them due and two of   *)
(* them sent at the same time, in pages of two.                                *)
EXTENDS Browser

MCJobs == 1 .. 5
MCCampaignOf == [j \in MCJobs |-> (j + 1) \div 2]
MCCreatedAt == [c \in 1 .. 3 |-> IF c = 3 THEN 2 ELSE 1]
MCScheduledAt == <<2, 1, 1, 3, 2>>
MCMatches == [s \in { "", "text" } |-> IF s = "" THEN MCJobs ELSE {2, 3, 4}]

\* Two campaigns due and a third to come; one sent, one half way, one due.
MCStart ==
    { [status |-> <<"SCHEDULED", "SCHEDULED", "SCHEDULED", "SCHEDULED", "ABSENT">>,
       sentAt |-> [j \in MCJobs |-> 0]],
      [status |-> <<"SENT", "SENT", "SENT", "PROCESSING", "SCHEDULED">>,
       sentAt |-> <<1, 2, 2, 0, 0>>] }
================================================================================
