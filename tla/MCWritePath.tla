------------------------------ MODULE MCWritePath ------------------------------
EXTENDS WritePath

CONSTANTS c1, c2, c3, c4, f1, f2, t1, t2, r1, r2, r3
MCConns == {c1, c2, c3, c4}
MCPages == {c1, c2}
MCListers == {c3}
MCFrail == {c1}
MCFiles == {f1, f2}
MCRoots == {f1}
MCTokens == {t1, t2}
MCTokenOf == [c \in MCConns |-> IF c = c1 THEN t1 ELSE t2]
MCFirstListing == << r1, r2 >>
MCListings == {<< r1, r2 >>, << r3, r1, r2 >>, << r1 >>}
Wish(c, kind, f, x) == [by |-> c, kind |-> kind, file |-> f, n |-> x]
Refresh == Wish(c3, "refresh", f1, 0)
More == Wish(c3, "more", f1, 0)
Models == Wish(c3, "models", f1, 0)
TheRoots == Wish(c3, "roots", f1, 0)
Resume1 == Wish(c1, "resume", f1, 1)
Resume2(x) == Wish(c2, "resume", f1, x)
Prompt == Wish(c1, "prompt", f1, 0)
Outside == Wish(c1, "prompt", f2, 0)
RawWish(form, t, keys, wrong, version) ==
  [by |-> c4, kind |-> "raw", frame |-> RawFrame(form, t, keys, wrong, version)]
Binary == RawWish("binary", "ping", {}, {}, 1)
Garbled == RawWish("garbled", "ping", {}, {}, 1)
Frozen == RawWish("json", "kill", {"file"}, {}, 1)
HelloV2 == RawWish("json", "hello", {"protocolVersion"}, {}, 2)
Ping == RawWish("json", "ping", {"nonce"}, {}, 1)
BadPrompt == RawWish("json", "prompt", {"requestId", "file"}, {}, 1)
TwoAnswers == RawWish("json", "ui-answer", {"requestId", "value", "confirmed"}, {}, 1)
Of(late, ws) == [late |-> late, wishes |-> ws]
MCScenarios ==
  { Of({}, << Refresh, More, Resume1 >>),                       \* a read waits for the gate
    Of({}, << Refresh, More, More >>),                          \* pages while the list changes
    Of({c3}, << Models, TheRoots, More >>),
    Of({c2}, << Prompt, Resume2(2) >>),                         \* generations
    Of({c2}, << Resume1, Resume2(2) >>),                        \* a shared read
    Of({c1}, << Prompt, Wish(c2, "prompt", f1, 0), Wish(c2, "stop", f1, 0) >>),
    Of({}, << Outside, Prompt, Resume1 >>),                     \* strikes
    Of({}, << Garbled, BadPrompt, Frozen >>), Of({}, << Ping, TwoAnswers, HelloV2 >>),
    Of({}, << Ping, Binary >>) }
================================================================================
