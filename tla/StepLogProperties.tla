-------------------------- MODULE StepLogProperties --------------------------
\* What the log of a step must be like in the sink.
EXTENDS StepLog

\* Dispatchers and fallback: however flushes, retries and late posts interleave,
\* the chunks of an execution, joined by sequence as the monitor does, give its
\* lines in their order and none twice.
LogReadsInOrder ==
  kind # "live" =>
    \A r, q \in rows :
      r.by = q.by /\ r.key[2] < q.key[2]
        => \A m \in ToSet(r.chunk), n \in ToSet(q.chunk) : m < n

\* No line that was dispatched goes missing on its way: it is waiting, stored, known to
\* be dropped, or was refused because an earlier life of the run has used its number.
InRows(line) == \E r \in rows : line \in Of(r.by, r.chunk)
NumberUsedBefore(x) == \E r \in rows : r.by[2] = x[2] /\ r.by[1] < x[1]
SentLines(x) == {<<x, n>> : n \in 1 .. lines[x]}
LinesAccounted ==
  kind = "structured" =>
    \A x \in Executions : \A line \in SentLines(x) :
      line \in Pending(x) \/ InRows(line) \/ line \in lost \/ NumberUsedBefore(x)

\* The log of a step can be read back: in order, and whole but for what is known to be lost.
StepLogKept == LogReadsInOrder /\ LinesAccounted

\* A line does not stay in a buffer: the timer or a full buffer gets it out, unless
\* the process exits first.
LinesLeave ==
  \A x \in Executions : (writer[x].buffer # <<>>) ~> (writer[x].buffer = <<>> \/ ~Alive(x))
=============================================================================
