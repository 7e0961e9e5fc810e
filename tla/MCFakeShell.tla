----------------------------- MODULE MCFakeShell -----------------------------
EXTENDS FakeShell
Path(abs, p) == [abs |-> abs, p |-> p]
FewArgs == {Path(TRUE, <<"tmp">>), Path(FALSE, <<"a">>)}
\* The shell fails here once the name is a directory.
FewRedirects == {<<>>, <<Path(FALSE, <<"a">>)>>}
=============================================================================
