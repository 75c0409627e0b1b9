----------------------------- MODULE MCReports -----------------------------
(* The reports and replies made of several queries, and the splitting of a      *)
(* long reply. They share no state; in each behaviour one of them, the scene,   *)
(* moves, and the others stay as below.                                         *)
EXTENDS TradingReports, PositionModes, StatusReplies, HtmlParts, TLC

VARIABLE scene

ModesStill ==
    /\ generations = <<>> /\ holdings = [k \in Coins \X (Ids \cup {NoId}) |-> 0]
    /\ projection = [s \in Coins |-> NoRow] /\ acts = 0 /\ inquiry = NoInquiry
RepliesStill ==
    /\ hour = 0 /\ cash = 0 /\ positions = [a \in Assets |-> 0] /\ rejected = "" /\ pulse = Absent
    /\ quotes = [a \in Assets |-> [price |-> 0, updated |-> 0]]
    /\ deeds = 0 /\ errors = 0 /\ answer = NoAnswer
PartsStill ==
    /\ text = <<>> /\ lineno = 1 /\ tokenno = 0 /\ remaining = 0
    /\ body = <<>> /\ stack = <<>> /\ start_stack = <<>>
    /\ segments = <<>> /\ parts = <<>> /\ packed = 0

Init ==
    \/ scene = "reports" /\ ReportInit /\ ModesStill /\ RepliesStill /\ PartsStill
    \/ scene = "modes" /\ ReportInit /\ ModesInit /\ RepliesStill /\ PartsStill
    \/ scene = "replies" /\ ReportInit /\ ModesStill /\ RepliesInit /\ PartsStill
    \/ scene = "parts" /\ ReportInit /\ ModesStill /\ RepliesStill /\ PartsInit

Next ==
    /\ UNCHANGED scene
    /\ \/ scene = "reports" /\ ReportNext /\ UNCHANGED <<modesVars, repliesVars, partsVars>>
       \/ scene = "modes" /\ ModesNext /\ UNCHANGED <<reportVars, repliesVars, partsVars>>
       \/ scene = "replies" /\ RepliesNext /\ UNCHANGED <<reportVars, modesVars, partsVars>>
       \/ scene = "parts" /\ PartsNext /\ UNCHANGED <<reportVars, modesVars, repliesVars>>

Spec == Init /\ [][Next]_<<scene, reportVars, modesVars, repliesVars, partsVars>>
-----------------------------------------------------------------------------
Recorded(s, side, known, v, r) ==
    [symbol |-> s, side |-> side, marks |-> known, version |-> v, realized |-> r, fee |-> 1]
FilledOperations ==
    {Recorded(s, "BUY", {}, "v1", <<>>) : s \in Traded}
    \cup {Recorded("a", "SELL", {}, "v1", <<-1, 3>>), Recorded("b", "SELL", {}, "unversioned", <<2>>),
          Recorded("a", "SELL", {"accounting_only"}, "unversioned", <<-1>>),
          Recorded("b", "BUY", {"source", "accounting_only"}, "unversioned", <<>>)}

Saying(decision, failed, read_only, counts) ==
    [decision |-> decision, reason |-> "", error |-> failed, read_only |-> read_only, counts |-> counts]
Sayings == {Saying("", FALSE, FALSE, TRUE), Saying("blocked_by_positions", FALSE, FALSE, TRUE),
            Saying("submitted", TRUE, FALSE, TRUE), Saying("submitted", FALSE, TRUE, TRUE),
            Saying("", FALSE, FALSE, FALSE)}

\* Lines of up to five tokens with tags that match and are not nested, as in all the replies.
TagLen == [t \in TagNames |-> IF t = "b" THEN 1 ELSE 2]
TextOf(len) == [kind |-> "text", len |-> len]
Tokens == {TextOf(n) : n \in {1, 4, 9}} \cup {[kind |-> "entity", len |-> 2]}
          \cup {[kind |-> kind, name |-> t, len |-> TagLen[t]] : kind \in {"open", "close"}, t \in TagNames}
Tags(line, n) == FoldLeft(After, <<>>, SubSeq(line, 1, n))
WellFormed(line) ==
    /\ Tags(line, Len(line)) = <<>>
    /\ \A n \in DOMAIN line :
         /\ Len(Tags(line, n)) <= 1
         /\ line[n].kind = "close" => Tags(line, n - 1) = <<line[n].name>>
         /\ n > 1 /\ line[n].kind = "text" => line[n - 1].kind # "text"
Lines == {line \in UNION {[1..n -> Tokens] : n \in 0..5} : WellFormed(line)}
Replies == {<< <<TextOf(1)>>, line, <<>>, <<TextOf(4)>> >> : line \in Lines}

\* While a report is in work no time passes and at most one operation comes, and the bot
\* writes while a reply is being read: what it writes before is in the states at the start.
Bounded ==
    /\ report.kind # "none" => minute = report.at
    /\ report.marks # <<>> => Len(history) - report.marks[1] <= 1
    /\ acts > 0 => inquiry.pos > 1
    /\ deeds > 0 => answer.pos > 1

Alike == Permutations(Coins) \cup Permutations(Ids) \cup Permutations(Assets)
=============================================================================
