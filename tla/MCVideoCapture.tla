--------------------------- MODULE MCVideoCapture ---------------------------
(***************************************************************************)
(* Small instances of VideoCapture for TLC.                                *)
(***************************************************************************)
EXTENDS VideoCapture, TLC

CONSTANTS h1, h2, a1, a2, a3, b1, b2, g1, g2, g3, noBuf

OneCtx == {h1}
TwoCtxs == {h1, h2}
TwoA == {a1, a2}
OneA == {a1}
OneEach == {a1, b1}

OwnerOf == [x \in Bufs |-> IF x \in {a1, a2, a3} THEN h1 ELSE h2]
EveryFrame == [c \in Ctxs |-> 1]

OneGeom == {g1}
TwoGeoms == {g1, g2}
GoodAndBad == {g1, g3}
BadGeom == {g3}
OnlyOne == {h1}
Nothing == {}

Faults == {"card_loss", "sleep", "late_irq", "no_video"}
Changes == {"hdcp", "sleep", "stale_knob"}
Sleep == {"sleep"}

\* What decides where buffers go: no picture contents, verdicts or history.
Structure ==
  <<started, hostVars, noVideo, geom, fifo, [thr EXCEPT !.src = 0], frame, gap, zc, queue, held,
    app, inflight, mark, cardVars, ahead, ctxVars>>
=============================================================================
