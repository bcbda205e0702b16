--------------------------- MODULE MCInteractive ---------------------------
EXTENDS Interactive

CONSTANTS f, g

Of(t, p, o, n, a) == [tool |-> t, path |-> p, old |-> o, new |-> n, all |-> a]

MCPaths == {f, g}
MCDisk == [p \in MCPaths |-> IF p = f THEN <<"x", "y">> ELSE Absent]

\* A call of each kind, one without content that is refused, and an edit that needs
\* replace_all once another has made the two marks equal.
MCCalls == {
  Of("Read", g, Blank, Blank, FALSE), Of("Grep", Blank, Blank, Blank, FALSE),
  Of("Write", g, Blank, "x", FALSE), Of("Write", f, Blank, Blank, FALSE),
  Of("Edit", f, "x", "y", FALSE), Of("Edit", f, "y", "z", FALSE),
  Of("Edit", f, "y", "w", TRUE), Of("Bash", g, Blank, Blank, FALSE),
  Of("WebFetch", Blank, Blank, Blank, FALSE), Of("Skill", Blank, Blank, Blank, FALSE),
  Of("TodoWrite", Blank, Blank, "x", FALSE), Of("Question", Blank, Blank, Blank, FALSE)}

MCManifests ==
  {[read |-> "", write |-> "on", execute |-> "on", web |-> "on", none |-> ""]}
=============================================================================
