-------------------------- MODULE MCReleaseWorkflow --------------------------
EXTENDS ReleaseWorkflow

\* A reversible and a repeatable step, a tag and a publication
MCPlan == [w \in Workflows |->
             IF w = "w1" THEN <<"pr-create-or-reuse", "post-verify">>
                         ELSE <<"version-tag", "npm-publish">>]
=============================================================================
