--------------------------- MODULE MCCheckRunner ---------------------------
EXTENDS CheckRunner

Tool == [command |-> <<"tool", "run">>, cwd |-> "root", env |-> {}, timeout |-> 1, output |-> 1]
Cargo == [Tool EXCEPT !.command = <<"cargo", "test">>]
Lists == [allow |-> <<<<"cargo">>, <<"tool">>>>, ticket |-> <<<<"tool">>, <<"cargo", "test">>>>]
Checking(required) == [required |-> required, allow |-> Lists.allow, ticket |-> Lists.ticket]

\* A list that is planned, and every way in which a check is refused.
MCConfigs ==
  {Checking(<<Cargo, Tool>>), Checking(<<>>)}
  \cup {Checking(<<Cargo, c>>) :
          c \in [command : {<<"tool">>, <<"meta">>, <<>>, <<"rm">>, <<"cargo", "run">>, <<"text">>},
                 cwd : {"root", "elsewhere", "root/tool"}, env : {{}, {"PATH"}, {"long secret"}},
                 timeout : {0, 1}, output : {1, 2}] \ {[Tool EXCEPT !.command = <<"tool">>]}}
  \cup {[Checking(<<Tool>>) EXCEPT !.allow = <<<<"meta">>, <<"tool">>>>]}

MCPlaces ==
  [w \in {"tool", "cargo", "rm", "text", "run", "test"} |->
     IF w = "tool" THEN <<"root/tool">> ELSE IF w = "cargo" THEN <<"home/cargo", "usr/cargo">> ELSE <<"root/text">>]

MCWorld ==
  [p \in {"root", "elsewhere", "root/tool", "root/text", "home/cargo", "usr/cargo"} |->
     [id |-> 0, kind |-> CASE p \in {"root", "elsewhere"} -> "directory" [] p = "root/text" -> "text"
                           [] p = "home/cargo" -> "absent" [] OTHER -> "binary"]]
============================================================================
