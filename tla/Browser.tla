------------------------------ MODULE Browser ------------------------------
(* The pages of one browser: tabs of the web app and pages of the guide.   *)
CONSTANTS Tabs, GuidePages, Nobody
ASSUME NobodyIsNoTab == Nobody \notin Tabs
=============================================================================
